---- MODULE Spec2Model ----
(***************************************************************************)
(* Grid availability image generator (generate_grid_image.py): the render  *)
(* of one day record into a timeline image, as a state machine.            *)
(*                                                                         *)
(* Python values: a str is the sequence of its characters, each a         *)
(* one-character string (a character outside ASCII is written by its code  *)
(* point). None is a value that is no str. A dict is a function whose      *)
(* DOMAIN is the set of keys present.                                      *)
(*                                                                         *)
(* Coordinates along the timeline are exact rationals, kept as integers in *)
(* units of 1/Scale pixel (hour_width = length / 24 and its half are then  *)
(* whole numbers).                                                         *)
(***************************************************************************)
EXTENDS Integers, Sequences, FiniteSets, TLC

VARIABLES
    data,           \* the input record (dict) given to generate_image
    vertical,       \* the orientation flag given to generate_image
    clock,          \* the wall clock: index into ClockInstants
    pc,             \* position of the render in generate_image / draw_timeline
    img_size,       \* <<img_width, img_height>> of the canvas, <<>> before Image.new
    layout,         \* positions computed by generate_image, <<>> before
    timeline,       \* axis geometry computed by draw_timeline, <<>> before
    line_segments,  \* draw_timeline's line_segments list
    today_read,     \* the date datetime.now() gave inside is_today, <<>> before
    now_marker,     \* the now-marker: whether it is drawn, and where
    error,          \* "none", or the exception that ended the render
    saved,          \* TRUE once img.save(output_path) wrote the image
    output_path,    \* the destination given to generate_image
    files,          \* the file system: the content of every path that exists
    stdout,         \* the lines written to standard output
    request,        \* the request a front end is serving
    handler,        \* position of the front end's handler
    response,       \* the handler's answer to the request
    invocations,    \* calls of generate_image made for the request
    tmp_path,       \* the temporary file created for the request, "" if none
    tmp_files,      \* the paths NamedTemporaryFile created so far
    delivered,      \* the outputs handed to callers as a path
    served,         \* the number of requests received so far
    prim_call,      \* the call of a drawing primitive: its name and arguments
    prim_pc,        \* position of the primitive: "idle", "start", "loop", "returned"
    current_pos,    \* draw_dashed_line's current_pos
    shapes,         \* what the primitive has drawn so far
    stream_pc,      \* position of sse_stream: "none", "start", "body", "stream", "ended"
    http_method,    \* request.method of the SSE connection
    incoming,       \* the chunks of the request body that have arrived and are unread
    closed,         \* the client has sent the last chunk of the request body
    received,       \* the chunks sse_stream has read, in order
    events,         \* the events sse_stream has yielded, in order
    calls,          \* the calls of handle_mcp_message with what they returned
    current         \* the message handle_mcp_message is working on

\* the state of the front ends (mcp_http_server.py, mcp_server.py)
adapter_vars ==
    <<request, handler, response, invocations, tmp_path, tmp_files, delivered,
      served>>

\* the state of a drawing primitive run on its own
prim_vars == <<prim_call, prim_pc, current_pos, shapes>>

\* the state of a render
render_vars ==
    <<data, vertical, clock, pc, img_size, layout, timeline, line_segments,
      today_read, now_marker, error, saved, output_path, files, stdout>>

\* the state of an SSE connection
stream_vars ==
    <<stream_pc, http_method, incoming, closed, received, events, calls, current>>

vars == <<render_vars, adapter_vars, prim_vars, stream_vars>>

----------------------------------------------------------------------------
(* Module constants of generate_grid_image.py                               *)

COLOR_AVAILABLE == <<52, 199, 89>>
COLOR_UNAVAILABLE == <<255, 107, 0>>
COLOR_TIMELINE == <<142, 142, 147>>

WIDTH == 1024
HEIGHT == 250
MARGIN == 24
CARD_PADDING == 16

\* range(24): the hours of the day
HOURS == 24

\* units per pixel of the positions along the axis (hour_width / 2 is exact)
Scale == 2 * HOURS
\* units per pixel of the now-marker position ((hour + minute/60) / 24 is exact)
MarkerScale == 60 * HOURS

(* The state symbols. The source's literals are U+25CF (black circle) and  *)
(* U+2715 (multiplication x); they are written here by name.               *)
AVAILABLE == <<"U+25CF">>
UNAVAILABLE == <<"U+2715">>
PARTIAL == <<"%">>
UNKNOWN == <<"-">>
\* Python's None (a JSON null): its one element is no character
None == <<"None">>

----------------------------------------------------------------------------
(* dict.get and the key of an hour                                          *)

Digit == <<"0", "1", "2", "3", "4", "5", "6", "7", "8", "9">>

\* data.get(key, default)
get(d, key, default) == IF key \in DOMAIN d THEN d[key] ELSE default

\* f"T_{hour:02d}" for every hour of two digits
HourKeys ==
    [hour \in 0..99 |->
        "T_" \o Digit[(hour \div 10) + 1] \o Digit[(hour % 10) + 1]]

HourKey(hour) == HourKeys[hour]

\* get_state_color with the partial marker drawn as available
BadStateColor(state) ==
    IF state = AVAILABLE THEN COLOR_AVAILABLE
    ELSE IF state = UNAVAILABLE THEN COLOR_UNAVAILABLE
    ELSE IF state = PARTIAL THEN COLOR_AVAILABLE
    ELSE COLOR_TIMELINE

get_state_color(state) ==
    IF state = AVAILABLE THEN COLOR_AVAILABLE
    ELSE IF state = UNAVAILABLE THEN COLOR_UNAVAILABLE
    ELSE COLOR_TIMELINE

\* get_hour_state with the unknown marker as the default
BadHourState(d, hour) == get(d, HourKey(hour), UNKNOWN)

get_hour_state(d, hour) == get(d, HourKey(hour), AVAILABLE)

\* get_previous_state that looks past Partial hours, to the nearest earlier
\* hour that is not Partial
BadPreviousStateResolved(d, hour) ==
    LET earlier == {k \in 0..(hour - 1) : get_hour_state(d, k) # PARTIAL}
    IN  IF earlier = {} THEN get_hour_state(d, 0)
        ELSE get_hour_state(d, CHOOSE k \in earlier : \A j \in earlier : j <= k)

\* get_previous_state that never steps back
BadPreviousState(d, hour) == get_hour_state(d, hour)

get_previous_state(d, hour) ==
    IF hour = 0 THEN get_hour_state(d, 0) ELSE get_hour_state(d, hour - 1)

\* get_next_state that steps back at hour 23
BadNextState(d, hour) ==
    IF hour = 23 THEN get_hour_state(d, 22) ELSE get_hour_state(d, hour + 1)

get_next_state(d, hour) ==
    IF hour = 23 THEN get_hour_state(d, 23) ELSE get_hour_state(d, hour + 1)

----------------------------------------------------------------------------
(* datetime.strptime(tdate_str, "%d-%m-%Y"): the format compiles to the    *)
(* regular expression                                                      *)
(*   (3[0-1]|[1-2]\d|0[1-9]|[1-9]| [1-9])-(1[0-2]|0[1-9]|[1-9])-(\d\d\d\d)  *)
(* matched at the start of the text; text left over after the match, or a  *)
(* day the month does not have, is a ValueError; a non-string a TypeError. *)

IsDigit(c) == \E i \in 1..10 : Digit[i] = c
DigitVal(c) == (CHOOSE i \in 1..10 : Digit[i] = c) - 1
IsNonZeroDigit(c) == IsDigit(c) /\ c # "0"

\* index of the first "-" of s at or after position from, 0 when there is none
FirstDash(s, from) ==
    LET at == {i \in from..Len(s) : s[i] = "-"}
    IN  IF at = {} THEN 0 ELSE CHOOSE i \in at : \A j \in at : i <= j

\* %d
DayField(p) ==
    \/ Len(p) = 2 /\ p[1] = "3" /\ p[2] \in {"0", "1"}
    \/ Len(p) = 2 /\ p[1] \in {"1", "2"} /\ IsDigit(p[2])
    \/ Len(p) = 2 /\ p[1] = "0" /\ IsNonZeroDigit(p[2])
    \/ Len(p) = 1 /\ IsNonZeroDigit(p[1])
    \/ Len(p) = 2 /\ p[1] = " " /\ IsNonZeroDigit(p[2])

\* %m
MonthField(p) ==
    \/ Len(p) = 2 /\ p[1] = "1" /\ p[2] \in {"0", "1", "2"}
    \/ Len(p) = 2 /\ p[1] = "0" /\ IsNonZeroDigit(p[2])
    \/ Len(p) = 1 /\ IsNonZeroDigit(p[1])

\* %Y
YearField(p) == Len(p) = 4 /\ \A i \in 1..4 : IsDigit(p[i])

RECURSIVE FieldVal(_)
FieldVal(p) ==
    IF p = <<>> THEN 0
    ELSE LET c == p[Len(p)]
             rest == FieldVal(SubSeq(p, 1, Len(p) - 1))
         IN  IF IsDigit(c) THEN 10 * rest + DigitVal(c) ELSE rest

IsLeap(y) == (y % 4 = 0 /\ y % 100 # 0) \/ y % 400 = 0

DaysInMonth(y, m) ==
    IF m = 2 THEN (IF IsLeap(y) THEN 29 ELSE 28)
    ELSE IF m \in {4, 6, 9, 11} THEN 30 ELSE 31

Raised(exception) == [ok |-> FALSE, raised |-> exception, date |-> <<>>]

\* the parsed date <<year, month, day>>, or the exception raised
strptime(s) ==
    IF s = None THEN Raised("TypeError")
    ELSE LET d1 == FirstDash(s, 1)
             d2 == IF d1 = 0 THEN 0 ELSE FirstDash(s, d1 + 1)
         IN  IF d1 = 0 \/ d2 = 0 THEN Raised("ValueError")
             ELSE LET dp == SubSeq(s, 1, d1 - 1)
                      mp == SubSeq(s, d1 + 1, d2 - 1)
                      yp == SubSeq(s, d2 + 1, Len(s))
                  IN  IF ~(DayField(dp) /\ MonthField(mp) /\ YearField(yp))
                      THEN Raised("ValueError")
                      ELSE LET y == FieldVal(yp)
                               m == FieldVal(mp)
                               d == FieldVal(dp)
                           IN  IF y < 1 \/ d > DaysInMonth(y, m)
                               THEN Raised("ValueError")
                               ELSE [ok |-> TRUE, raised |-> "none",
                                     date |-> <<y, m, d>>]

\* is_today that compares year and month only
BadIsToday(tdate_str, now) ==
    LET r == strptime(tdate_str)
    IN  IF ~r.ok THEN FALSE
        ELSE r.date[1] = now.date[1] /\ r.date[2] = now.date[2]

\* is_today with `now` the value datetime.now() returns inside it; the bare
\* except turns every exception into False
is_today(tdate_str, now) ==
    LET r == strptime(tdate_str)
    IN  IF ~r.ok THEN FALSE
        ELSE r.date = now.date

\* get_current_time_position: now.hour + now.minute / 60.0, in minutes
get_current_time_position(now) == 60 * now.hour + now.minute

----------------------------------------------------------------------------
(* draw.textbbox of the date text. Pillow measures an empty text as an     *)
(* empty box, a single line by its glyphs, and a text with "\n" line by    *)
(* line, each further line adding the font's line advance. The metrics     *)
(* are the font's (get_ios_font(14, "semibold")): glyph is the height of   *)
(* one line of glyphs, advance the distance between two lines.             *)

FontDate14 == [glyph |-> 10, advance |-> 18]

TextLines(text) == 1 + Cardinality({i \in 1..Len(text) : text[i] = "\n"})

\* date_bbox[3] - date_bbox[1]
TextHeight(text, font) ==
    IF text = <<>> THEN 0
    ELSE font.glyph + (TextLines(text) - 1) * font.advance

----------------------------------------------------------------------------
(* generate_image: the canvas and the positions it computes                *)

\* the canvas size with the orientation ignored
BadCanvasSize(v) == <<WIDTH, HEIGHT>>

\* img_width, img_height
CanvasSize(v) == IF v THEN <<250, 1024>> ELSE <<WIDTH, HEIGHT>>

\* the vertical branch of generate_image
VerticalLayout(date_text, img_height) ==
    LET date_height == TextHeight(date_text, FontDate14)
        date_y == MARGIN + 16
        separator_y == date_y + date_height + 12
        timeline_card_y == separator_y + 8
        legend_height == 2 * 20 + 16
        timeline_card_height == img_height - timeline_card_y - MARGIN - legend_height
    IN  [date_height |-> date_height,
         separator_y |-> separator_y,
         timeline_card_y |-> timeline_card_y,
         timeline_card_height |-> timeline_card_height,
         timeline_content_y |-> timeline_card_y + 8,
         legend_y |-> timeline_card_y + timeline_card_height + 8]

\* the horizontal branch of generate_image
HorizontalLayout ==
    LET separator_y == MARGIN + 42
        timeline_card_y == separator_y + 8
        timeline_card_height == 80
    IN  [separator_y |-> separator_y,
         timeline_card_y |-> timeline_card_y,
         timeline_card_height |-> timeline_card_height,
         timeline_content_y |-> timeline_card_y + 8,
         legend_y |-> timeline_card_y + timeline_card_height + 12]

----------------------------------------------------------------------------
(* draw_timeline: the axis and the line segments, one code path per        *)
(* orientation                                                             *)

\* vertical: timeline_y_start, timeline_height (timeline_card_height is given)
VerticalAxis(timeline_y, timeline_card_height) ==
    [timeline_y_start |-> timeline_y + 20,
     timeline_height |-> timeline_card_height - 40]

\* horizontal: timeline_x, timeline_width
HorizontalAxis(width) ==
    [timeline_x |-> MARGIN + CARD_PADDING,
     timeline_width |-> width - 2 * MARGIN - 2 * CARD_PADDING]

\* the vertical loop body with both halves of a Partial hour in the hour's
\* own color
BadVerticalHourSegments(d, axis, hour) ==
    LET state == get_hour_state(d, hour)
        hour_height == (Scale * axis.timeline_height) \div HOURS
        hour_start_y == Scale * axis.timeline_y_start + hour * hour_height
        hour_end_y == Scale * axis.timeline_y_start + (hour + 1) * hour_height
        hour_mid_y == Scale * axis.timeline_y_start + hour * hour_height
                          + hour_height \div 2
    IN  IF state = PARTIAL
        THEN << [start_y |-> hour_start_y, end_y |-> hour_mid_y,
                 color |-> get_state_color(state)],
                [start_y |-> hour_mid_y, end_y |-> hour_end_y,
                 color |-> get_state_color(state)] >>
        ELSE << [start_y |-> hour_start_y, end_y |-> hour_end_y,
                 color |-> get_state_color(state)] >>

\* the body of the vertical `for hour in range(24)` loop that builds segments
VerticalHourSegments(d, axis, hour) ==
    LET state == get_hour_state(d, hour)
        hour_height == (Scale * axis.timeline_height) \div HOURS
        hour_start_y == Scale * axis.timeline_y_start + hour * hour_height
        hour_end_y == Scale * axis.timeline_y_start + (hour + 1) * hour_height
        hour_mid_y == Scale * axis.timeline_y_start + hour * hour_height
                          + hour_height \div 2
    IN  IF state = PARTIAL
        THEN << [start_y |-> hour_start_y, end_y |-> hour_mid_y,
                 color |-> get_state_color(get_previous_state(d, hour))],
                [start_y |-> hour_mid_y, end_y |-> hour_end_y,
                 color |-> get_state_color(get_next_state(d, hour))] >>
        ELSE << [start_y |-> hour_start_y, end_y |-> hour_end_y,
                 color |-> get_state_color(state)] >>

\* the vertical segment loop run over range(25)
RECURSIVE BadVerticalSegments(_, _, _)
BadVerticalSegments(d, axis, hour) ==
    IF hour > HOURS THEN <<>>
    ELSE VerticalHourSegments(d, axis, hour)
             \o BadVerticalSegments(d, axis, hour + 1)

RECURSIVE VerticalSegments(_, _, _)
VerticalSegments(d, axis, hour) ==
    IF hour >= HOURS THEN <<>>
    ELSE VerticalHourSegments(d, axis, hour) \o VerticalSegments(d, axis, hour + 1)

\* the horizontal loop body with both halves of a Partial hour in the
\* hour's own color
BadHorizontalHourSegments(d, axis, hour) ==
    LET state == get_hour_state(d, hour)
        hour_width == (Scale * axis.timeline_width) \div HOURS
        hour_start_x == Scale * axis.timeline_x + hour * hour_width
        hour_end_x == Scale * axis.timeline_x + (hour + 1) * hour_width
        hour_mid_x == Scale * axis.timeline_x + hour * hour_width
                          + hour_width \div 2
    IN  IF state = PARTIAL
        THEN << [start_x |-> hour_start_x, end_x |-> hour_mid_x,
                 color |-> get_state_color(state)],
                [start_x |-> hour_mid_x, end_x |-> hour_end_x,
                 color |-> get_state_color(state)] >>
        ELSE << [start_x |-> hour_start_x, end_x |-> hour_end_x,
                 color |-> get_state_color(state)] >>

\* the body of the horizontal `for hour in range(24)` loop that builds segments
HorizontalHourSegments(d, axis, hour) ==
    LET state == get_hour_state(d, hour)
        hour_width == (Scale * axis.timeline_width) \div HOURS
        hour_start_x == Scale * axis.timeline_x + hour * hour_width
        hour_end_x == Scale * axis.timeline_x + (hour + 1) * hour_width
        hour_mid_x == Scale * axis.timeline_x + hour * hour_width
                          + hour_width \div 2
    IN  IF state = PARTIAL
        THEN << [start_x |-> hour_start_x, end_x |-> hour_mid_x,
                 color |-> get_state_color(get_previous_state(d, hour))],
                [start_x |-> hour_mid_x, end_x |-> hour_end_x,
                 color |-> get_state_color(get_next_state(d, hour))] >>
        ELSE << [start_x |-> hour_start_x, end_x |-> hour_end_x,
                 color |-> get_state_color(state)] >>

RECURSIVE HorizontalSegments(_, _, _)
HorizontalSegments(d, axis, hour) ==
    IF hour >= HOURS THEN <<>>
    ELSE HorizontalHourSegments(d, axis, hour)
             \o HorizontalSegments(d, axis, hour + 1)

----------------------------------------------------------------------------
(* The wall clock: datetime.now() at successive instants                   *)

ClockInstants ==
    << [date |-> <<2025, 11, 20>>, hour |-> 16, minute |-> 30],
       [date |-> <<2025, 11, 20>>, hour |-> 23, minute |-> 59],
       [date |-> <<2025, 11, 21>>, hour |-> 0, minute |-> 0] >>

Now == ClockInstants[clock]

----------------------------------------------------------------------------
(* The input records                                                        *)

\* marks a key that is not in the dict
Absent == <<"<absent>">>

\* the dict with "T_Date": date and HourKey(h): assign[h], Absent ones left out
MakeData(assign, date) ==
    LET hours == {h \in DOMAIN assign : assign[h] # Absent}
        keys == {HourKey(h) : h \in hours}
                    \cup (IF date = Absent THEN {} ELSE {"T_Date"})
    IN  [k \in keys |->
            IF k = "T_Date" THEN date
            ELSE assign[CHOOSE h \in hours : HourKey(h) = k]]

Date_20_11_2025 == <<"2", "0", "-", "1", "1", "-", "2", "0", "2", "5">>
Date_21_11_2025 == <<"2", "1", "-", "1", "1", "-", "2", "0", "2", "5">>
Date_19_11_2025 == <<"1", "9", "-", "1", "1", "-", "2", "0", "2", "5">>
DateEmpty == <<>>
DateFreeText == <<"t", "o", "d", "a", "y">>
DateWrongFormat == <<"2", "0", "2", "5", "-", "1", "1", "-", "2", "0">>
DateNoSuchDay == <<"3", "1", "-", "0", "2", "-", "2", "0", "2", "5">>
DateTrailingSpace == <<"2", "0", "-", "1", "1", "-", "2", "0", "2", "5", " ">>
\* a text of 48 lines, one character each
DateTall == [i \in 1..(2 * 48 - 1) |-> IF i % 2 = 1 THEN "1" ELSE "\n"]
\* data.get("T_Date", "Unknown Date")
UnknownDate == <<"U", "n", "k", "n", "o", "w", "n", " ", "D", "a", "t", "e">>

DateStrings ==
    {Date_20_11_2025, Date_21_11_2025, Date_19_11_2025, DateEmpty, DateFreeText,
     DateWrongFormat, DateNoSuchDay, DateTrailingSpace, DateTall}

DateValues == DateStrings \cup {None, Absent}

\* the values of an hour field: the four symbols, an unrecognized one, null
HourValues == {AVAILABLE, UNAVAILABLE, PARTIAL, UNKNOWN, <<"?">>, None}

\* the length of the run of consecutive hours that vary together
WindowLen == 3
WindowValues == {Absent, AVAILABLE, UNAVAILABLE, PARTIAL, UNKNOWN}

NoHours == [h \in {} |-> Absent]

\* the record of the round-trip scenario: T_06 unavailable, T_16 partial
RoundTripHours == (6 :> UNAVAILABLE) @@ (16 :> PARTIAL)

\* example_data of main()
ExampleHours ==
    [h \in 0..24 |->
        IF h \in 0..5 \cup 13..15 THEN AVAILABLE
        ELSE IF h \in {16, 23} THEN PARTIAL
        ELSE IF h = 24 THEN UNKNOWN
        ELSE UNAVAILABLE]

\* every assignment of a window of WindowLen consecutive hours, the rest absent
WindowRecords ==
    UNION {{MakeData(a, Date_19_11_2025) :
                a \in [s..(s + WindowLen - 1) -> WindowValues]} :
           s \in 0..(HOURS - WindowLen)}

\* one hour field (T_24 included) with every value, the rest absent
SingleRecords ==
    {MakeData(h :> v, Date_19_11_2025) : h \in 0..HOURS, v \in HourValues}

\* every date value with a few hour assignments
DateRecords ==
    {MakeData(a, dv) : a \in {NoHours, RoundTripHours, ExampleHours},
                       dv \in DateValues}

Records == WindowRecords \cup SingleRecords \cup DateRecords

----------------------------------------------------------------------------
(* The render: generate_image(data, output_path, vertical)                 *)

NoMarker == [drawn |-> FALSE, minutes |-> 0, date |-> <<>>, position |-> 0]

\* the content of a file that was created and not written
EmptyFile ==
    [size |-> <<>>, date_text |-> <<>>, segments |-> <<>>, marker |-> NoMarker]

\* the content img.save writes: the canvas with what was drawn on it
RenderedImage ==
    [size |-> img_size,
     date_text |-> get(data, "T_Date", UnknownDate),
     segments |-> line_segments,
     marker |-> now_marker]

\* no front end: generate_image is called by main()
NoRequest ==
    [adapter |-> "none", tool |-> "", grid_data |-> <<>>, vertical |-> "absent",
     query_vertical |-> "absent", return_base64 |-> FALSE, output_path |-> ""]

NoResponse ==
    [form |-> "none", code |-> 0, envelope |-> "none", media_type |-> "",
     filename |-> <<>>, content |-> EmptyFile, path |-> "", message |-> ""]

\* the state of the front ends when none of them is involved
NoAdapter ==
    /\ request = NoRequest
    /\ handler = "none"
    /\ response = NoResponse
    /\ invocations = 0
    /\ tmp_path = ""
    /\ tmp_files = {}
    /\ delivered = <<>>
    /\ served = 0

\* no call of a primitive on its own
NoCall ==
    [name |-> "none", bbox |-> <<>>, radius |-> 0, points |-> <<>>,
     dash_length |-> 0, gap_length |-> 0]

NoPrimitive ==
    /\ prim_call = NoCall
    /\ prim_pc = "idle"
    /\ current_pos = 0
    /\ shapes = <<>>

\* no message is being handled
NoMessage == [json |-> "none"]

\* no SSE connection
NoStream ==
    /\ stream_pc = "none"
    /\ http_method = "none"
    /\ incoming = <<>>
    /\ closed = FALSE
    /\ received = <<>>
    /\ events = <<>>
    /\ calls = <<>>
    /\ current = NoMessage

Init ==
    /\ data \in Records
    /\ vertical \in BOOLEAN
    /\ clock = 1
    /\ pc = "start"
    /\ img_size = <<>>
    /\ layout = <<>>
    /\ timeline = <<>>
    /\ line_segments = <<>>
    /\ today_read = <<>>
    /\ now_marker = NoMarker
    /\ error = "none"
    /\ saved = FALSE
    /\ output_path = "grid_availability.png"
    /\ files = [p \in {} |-> EmptyFile]
    /\ stdout = <<>>
    /\ NoAdapter
    /\ NoPrimitive
    /\ NoStream

\* Image.new('RGB', (img_width, img_height), COLOR_BACKGROUND)
CreateCanvas ==
    /\ pc = "start"
    /\ img_size' = CanvasSize(vertical)
    /\ pc' = "canvas"
    /\ UNCHANGED <<data, vertical, clock, layout, timeline, line_segments,
                   today_read, now_marker, error, saved>>
    /\ UNCHANGED <<output_path, files, stdout, adapter_vars, prim_vars, stream_vars>>

\* Image.new cannot allocate the canvas
CanvasFails ==
    /\ pc = "start"
    /\ pc' = "failed"
    /\ error' = "MemoryError"
    /\ UNCHANGED <<data, vertical, clock, img_size, layout, timeline,
                   line_segments, today_read, now_marker, saved>>
    /\ UNCHANGED <<output_path, files, stdout, adapter_vars, prim_vars, stream_vars>>

\* the card, the date label, the separator and the timeline card; the date
\* text is measured and drawn, which raises TypeError unless it is a str
DrawHeader ==
    /\ pc = "canvas"
    /\ LET tdate == get(data, "T_Date", UnknownDate)
       IN  IF tdate = None
           THEN /\ pc' = "failed"
                /\ error' = "TypeError"
                /\ UNCHANGED layout
           ELSE /\ pc' = "timeline"
                /\ layout' = IF vertical
                             THEN VerticalLayout(tdate, img_size[2])
                             ELSE HorizontalLayout
                /\ UNCHANGED error
    /\ UNCHANGED <<data, vertical, clock, img_size, timeline, line_segments,
                   today_read, now_marker, saved>>
    /\ UNCHANGED <<output_path, files, stdout, adapter_vars, prim_vars, stream_vars>>

\* draw_timeline up to the hour separators: axis, ticks, segments
DrawTimeline ==
    /\ pc = "timeline"
    /\ IF vertical
       THEN LET axis == VerticalAxis(layout.timeline_content_y,
                                     layout.timeline_card_height)
            IN  /\ timeline' = axis
                /\ line_segments' = VerticalSegments(data, axis, 0)
       ELSE LET axis == HorizontalAxis(img_size[1])
            IN  /\ timeline' = axis
                /\ line_segments' = HorizontalSegments(data, axis, 0)
    /\ pc' = "is_today"
    /\ UNCHANGED <<data, vertical, clock, img_size, layout, today_read,
                   now_marker, error, saved>>
    /\ UNCHANGED <<output_path, files, stdout, adapter_vars, prim_vars, stream_vars>>

\* tdate = data.get("T_Date", ""); if is_today(tdate):
IsToday ==
    /\ pc = "is_today"
    /\ today_read' = Now.date
    /\ pc' = IF is_today(get(data, "T_Date", <<>>), Now)
             THEN "now_marker" ELSE "legend"
    /\ UNCHANGED <<data, vertical, clock, img_size, layout, timeline,
                   line_segments, now_marker, error, saved>>
    /\ UNCHANGED <<output_path, files, stdout, adapter_vars, prim_vars, stream_vars>>

\* current_time_pos = get_current_time_position(); if 0 <= pos < 24: the
\* triangle, the "now" label and the dashed guide line at that position
DrawNowMarker ==
    /\ pc = "now_marker"
    /\ LET current_time_pos == get_current_time_position(Now)
           start == IF vertical THEN timeline.timeline_y_start
                    ELSE timeline.timeline_x
           length == IF vertical THEN timeline.timeline_height
                     ELSE timeline.timeline_width
       IN  now_marker' =
               IF 0 <= current_time_pos /\ current_time_pos < 60 * HOURS
               THEN [drawn |-> TRUE,
                     minutes |-> current_time_pos,
                     date |-> Now.date,
                     position |-> MarkerScale * start + current_time_pos * length]
               ELSE NoMarker
    /\ pc' = "legend"
    /\ UNCHANGED <<data, vertical, clock, img_size, layout, timeline,
                   line_segments, today_read, error, saved>>
    /\ UNCHANGED <<output_path, files, stdout, adapter_vars, prim_vars, stream_vars>>

\* the legend, then img.save(output_path) and
\* print(f"Image saved to: {output_path}")
SaveImage ==
    /\ pc = "legend"
    /\ saved' = TRUE
    /\ files' = (output_path :> RenderedImage) @@ files
    /\ stdout' = Append(stdout, <<"Image saved to: ", output_path>>)
    /\ pc' = "done"
    /\ UNCHANGED <<data, vertical, clock, img_size, layout, timeline,
                   line_segments, today_read, now_marker, error, output_path,
                   adapter_vars, prim_vars, stream_vars>>

\* img.save cannot open the output for writing
SaveFails ==
    /\ pc = "legend"
    /\ pc' = "failed"
    /\ error' = "OSError"
    /\ UNCHANGED <<data, vertical, clock, img_size, layout, timeline,
                   line_segments, today_read, now_marker, saved>>
    /\ UNCHANGED <<output_path, files, stdout, adapter_vars, prim_vars, stream_vars>>

\* time passes. The render reads the clock twice, in is_today and in
\* get_current_time_position; time that passes before the first read is
\* time at which the render started later.
Tick ==
    /\ pc \in {"is_today", "now_marker"}
    /\ clock < Len(ClockInstants)
    /\ clock' = clock + 1
    /\ UNCHANGED <<data, vertical, pc, img_size, layout, timeline,
                   line_segments, today_read, now_marker, error, saved>>
    /\ UNCHANGED <<output_path, files, stdout, adapter_vars, prim_vars, stream_vars>>

Next ==
    \/ CreateCanvas
    \/ CanvasFails
    \/ DrawHeader
    \/ DrawTimeline
    \/ IsToday
    \/ DrawNowMarker
    \/ SaveImage
    \/ SaveFails
    \/ Tick

Spec == Init /\ [][Next]_vars

----------------------------------------------------------------------------
(* The front ends: the REST handler and the JSON-RPC (SSE) handler of      *)
(* mcp_http_server.py and the tool handler of mcp_server.py. Each is an    *)
(* async function that calls generate_image without awaiting in between,   *)
(* so a handler runs to its return before the next request is taken; all   *)
(* of them write to one file system.                                       *)

TOOL == "generate_grid_availability_image"
TOOL_VERTICAL == "generate_grid_availability_image_vertical"

\* a boolean parameter as sent ("true", "false") or left out ("absent")
Flag(sent, default) == IF sent = "absent" THEN default ELSE sent = "true"

\* GridData: T_Date is a required str (a request that fails the model is
\* answered 422 by the framework, and the handler is not called)
RequestModelValid(grid_data) ==
    "T_Date" \in DOMAIN grid_data /\ grid_data["T_Date"] # None

\* request.grid_data.model_dump(exclude_none=True): the model's fields that
\* are not None
model_dump(grid_data) ==
    LET fields == {"T_Date"} \cup {HourKey(h) : h \in 0..(HOURS - 1)}
        keys == {k \in DOMAIN grid_data \cap fields : grid_data[k] # None}
    IN  [k \in keys |-> grid_data[k]]

\* the check that lets every grid data through
BadHasTDate(grid_data) == TRUE

\* "T_Date" in grid_data
HasTDate(grid_data) == "T_Date" \in DOMAIN grid_data

\* is_vertical = vertical or request.vertical
is_vertical(query, body) == query \/ body

\* tmp_file.name of the n-th NamedTemporaryFile(suffix=".png", delete=False)
TmpName(n) == "/tmp/tmp" \o Digit[n + 1] \o ".png"

\* s.replace(old, new) for one-character old and new
replace(s, old, new) == [i \in 1..Len(s) |-> IF s[i] = old THEN new ELSE s[i]]

\* base64.b64encode(image_data).decode("utf-8")
b64encode(image_data) == [encoding |-> "base64", decoded |-> image_data]

\* the framework's answer to a request that fails the request model
ValidationError ==
    [NoResponse EXCEPT !.form = "error", !.code = 422,
                       !.message = "Field required"]

\* the handlers' own answer to grid data without "T_Date". The REST handler
\* raises HTTPException(400) inside its try block, whose `except Exception`
\* turns it into HTTPException(500).
MissingDate(adapter) ==
    [NoResponse EXCEPT
        !.form = "error",
        !.code = IF adapter = "rest" THEN 500
                 ELSE IF adapter = "sse" THEN -32602 ELSE 0,
        !.message = IF adapter = "rest"
                    THEN "Error generating grid image: 400: T_Date is required in grid_data"
                    ELSE IF adapter = "sse" THEN "T_Date is required in grid_data"
                    ELSE "Error: T_Date is required in grid_data"]

\* the answer to an exception that reports a success
BadInternalError(adapter, exception) ==
    [NoResponse EXCEPT
        !.form = "path",
        !.code = IF adapter = "rest" THEN 200 ELSE 0,
        !.message = "Grid availability image generated successfully at: "]

\* except Exception as e: HTTPException(500) / error -32603 / an error text
InternalError(adapter, exception) ==
    [NoResponse EXCEPT
        !.form = "error",
        !.code = IF adapter = "rest" THEN 500
                 ELSE IF adapter = "sse" THEN -32603 ELSE 0,
        !.message = "Error generating grid image: " \o exception]

\* the answers to a rendered image with the base64 flag ignored
BadImageResponse(adapter, return_base64, image_data, path, tdate, v) ==
    [NoResponse EXCEPT
        !.form = "binary",
        !.code = IF adapter = "rest" THEN 200 ELSE 0,
        !.media_type = "image/png",
        !.filename = <<"grid_availability_">> \o replace(tdate, "-", "_")
                         \o <<".png">>,
        !.content = image_data]

\* the answers to a rendered image: the REST handler's JSONResponse and
\* Response, the content lists of the JSON-RPC handler and of call_tool
ImageResponse(adapter, return_base64, image_data, path, tdate, v) ==
    LET image_size == IF v THEN "250x1024px" ELSE "1024x250px"
    IN  IF adapter = "rest"
        THEN IF return_base64
             THEN [NoResponse EXCEPT
                      !.form = "base64",
                      !.code = 200,
                      !.envelope = "json",
                      !.media_type = "image/png",
                      !.content = b64encode(image_data),
                      !.message = "Grid availability image generated successfully"]
             ELSE [NoResponse EXCEPT
                      !.form = "binary",
                      !.code = 200,
                      !.media_type = "image/png",
                      !.filename = <<"grid_availability_">>
                                       \o replace(tdate, "-", "_") \o <<".png">>,
                      !.content = image_data]
        ELSE IF return_base64
             THEN [NoResponse EXCEPT
                      !.form = "base64",
                      !.envelope = IF adapter = "sse" THEN "jsonrpc" ELSE "tool",
                      !.media_type = "image/png",
                      !.content = b64encode(image_data),
                      !.message = "Grid availability image generated successfully. Image size: "
                                      \o image_size]
             ELSE [NoResponse EXCEPT
                      !.form = "path",
                      !.envelope = IF adapter = "sse" THEN "jsonrpc" ELSE "tool",
                      !.path = path,
                      !.message = "Grid availability image generated successfully at: "
                                      \o path]

\* the requests: the date is a text, left out, or null; the flags are sent
\* or left out; one hour is null or no hour is sent
MaxRequests == 2

NullHour == 6 :> None
RequestData ==
    {MakeData(a, dv) : a \in {NoHours, NullHour},
                       dv \in {Date_20_11_2025, Absent, None}}
Flags == {"absent", "true", "false"}

\* POST /tools/generate_grid_availability_image and POST /generate
RestRequests ==
    {[adapter |-> "rest", tool |-> TOOL, grid_data |-> d, vertical |-> bv,
      query_vertical |-> qv, return_base64 |-> b64, output_path |-> ""] :
        d \in RequestData, bv \in Flags, qv \in Flags, b64 \in BOOLEAN}

\* tools/call messages of the SSE endpoint
SseRequests ==
    {[adapter |-> "sse", tool |-> t, grid_data |-> d, vertical |-> av,
      query_vertical |-> "absent", return_base64 |-> b64, output_path |-> ""] :
        t \in {TOOL, TOOL_VERTICAL}, d \in RequestData, av \in Flags,
        b64 \in BOOLEAN}

\* tool calls of the stdio server; output_path is the caller's, or left out
StdioRequests ==
    {[adapter |-> "stdio", tool |-> t, grid_data |-> d, vertical |-> "absent",
      query_vertical |-> "absent", return_base64 |-> b64, output_path |-> op] :
        t \in {TOOL, TOOL_VERTICAL}, d \in RequestData, b64 \in BOOLEAN,
        op \in {"", "/srv/out.png"}}

\* a name that is not in the list of tools
NO_SUCH_TOOL == "no_such_tool"

\* tool calls with a name that tools/list and list_tools do not return
SseUnknownToolRequests ==
    {[adapter |-> "sse", tool |-> NO_SUCH_TOOL, grid_data |-> d,
      vertical |-> "absent", query_vertical |-> "absent",
      return_base64 |-> TRUE, output_path |-> ""] :
        d \in {MakeData(NoHours, Date_20_11_2025), MakeData(NoHours, Absent)}}

StdioUnknownToolRequests ==
    {[adapter |-> "stdio", tool |-> NO_SUCH_TOOL, grid_data |-> d,
      vertical |-> "absent", query_vertical |-> "absent",
      return_base64 |-> TRUE, output_path |-> ""] :
        d \in {MakeData(NoHours, Date_20_11_2025), MakeData(NoHours, Absent)}}

\* call_tool's last branch: the text "Unknown tool: {name}"
UnknownTool(name) ==
    [NoResponse EXCEPT !.form = "error", !.message = "Unknown tool: " \o name]

\* the next name NamedTemporaryFile picks: one no file has
NextTmp == TmpName(Cardinality(tmp_files) + 1)

\* a handler returns without calling generate_image
Answer(r, resp) ==
    /\ request' = r
    /\ served' = served + 1
    /\ response' = resp
    /\ handler' = "responded"
    /\ invocations' = 0
    /\ tmp_path' = ""
    /\ UNCHANGED <<data, vertical, clock, pc, img_size, layout, timeline,
                   line_segments, today_read, now_marker, error, saved,
                   output_path, files, stdout, tmp_files, delivered>>

\* a handler calls generate_image(grid_data, path, vertical=v), on a path
\* NamedTemporaryFile has just created when tmp
Invoke(r, grid_data, path, v, tmp) ==
    /\ request' = r
    /\ served' = served + 1
    /\ response' = NoResponse
    /\ handler' = "rendering"
    /\ invocations' = 1
    /\ tmp_path' = IF tmp THEN path ELSE ""
    /\ tmp_files' = IF tmp THEN tmp_files \cup {path} ELSE tmp_files
    /\ files' = IF tmp THEN (path :> EmptyFile) @@ files ELSE files
    /\ data' = grid_data
    /\ vertical' = v
    /\ output_path' = path
    /\ pc' = "start"
    /\ img_size' = <<>>
    /\ layout' = <<>>
    /\ timeline' = <<>>
    /\ line_segments' = <<>>
    /\ today_read' = <<>>
    /\ now_marker' = NoMarker
    /\ error' = "none"
    /\ saved' = FALSE
    /\ UNCHANGED <<clock, stdout, delivered>>

\* generate_image returned or raised: the handler reads the image back and
\* answers, or answers the exception
Return(adapter) ==
    /\ pc \in {"done", "failed"}
    /\ response' =
           IF pc = "failed" THEN InternalError(adapter, error)
           ELSE ImageResponse(adapter, request.return_base64,
                              files[output_path], output_path,
                              data["T_Date"], vertical)
    /\ delivered' =
           IF response'.form = "path"
           THEN Append(delivered, [path |-> output_path,
                                   image |-> files[output_path]])
           ELSE delivered
    /\ handler' = "responded"
    /\ UNCHANGED <<data, vertical, clock, pc, img_size, layout, timeline,
                   line_segments, today_read, now_marker, error, saved,
                   output_path, files, stdout, request, invocations, tmp_path,
                   tmp_files, served>>

\* generate_grid_availability_image up to its call of generate_image
RestGenerate ==
    /\ handler \in {"idle", "responded"}
    /\ served < MaxRequests
    /\ UNCHANGED <<prim_vars, stream_vars>>
    /\ \E r \in RestRequests :
          IF ~RequestModelValid(r.grid_data)
          THEN Answer(r, ValidationError)
          ELSE LET grid_data_dict == model_dump(r.grid_data)
               IN  IF ~HasTDate(grid_data_dict)
                   THEN Answer(r, MissingDate("rest"))
                   ELSE Invoke(r, grid_data_dict, NextTmp,
                               is_vertical(Flag(r.query_vertical, FALSE),
                                           Flag(r.vertical, FALSE)),
                               TRUE)

RestRespond ==
    /\ handler = "rendering"
    /\ request.adapter = "rest"
    /\ Return("rest")
    /\ UNCHANGED <<prim_vars, stream_vars>>

\* the try block of the tools/call branch up to its call of generate_image
ToolsCall(r) ==
    IF ~HasTDate(r.grid_data)
    THEN Answer(r, MissingDate("sse"))
    ELSE Invoke(r, r.grid_data, NextTmp,
                IF r.tool = TOOL_VERTICAL THEN TRUE
                ELSE Flag(r.vertical, FALSE),
                TRUE)

\* handle_mcp_message, method tools/call, up to its call of generate_image
SseToolsCall ==
    /\ handler \in {"idle", "responded"}
    /\ served < MaxRequests
    /\ UNCHANGED <<prim_vars, stream_vars>>
    /\ \E r \in SseRequests \cup SseUnknownToolRequests : ToolsCall(r)

SseRespond ==
    /\ handler = "rendering"
    /\ request.adapter = "sse"
    /\ Return("sse")
    /\ UNCHANGED <<prim_vars, stream_vars>>

\* call_tool up to its call of generate_image
StdioCallTool ==
    /\ handler \in {"idle", "responded"}
    /\ served < MaxRequests
    /\ UNCHANGED <<prim_vars, stream_vars>>
    /\ \E r \in StdioRequests \cup StdioUnknownToolRequests :
          IF r.tool \notin {TOOL, TOOL_VERTICAL}
          THEN Answer(r, UnknownTool(r.tool))
          ELSE IF ~HasTDate(r.grid_data)
          THEN Answer(r, MissingDate("stdio"))
          ELSE Invoke(r, r.grid_data,
                      IF r.output_path = "" THEN NextTmp ELSE r.output_path,
                      r.tool = TOOL_VERTICAL,
                      r.output_path = "")

StdioRespond ==
    /\ handler = "rendering"
    /\ request.adapter = "stdio"
    /\ Return("stdio")
    /\ UNCHANGED <<prim_vars, stream_vars>>

\* the servers are started and no request has come
ServersInit ==
    /\ data = MakeData(NoHours, Absent)
    /\ vertical = FALSE
    /\ clock = 1
    /\ pc = "idle"
    /\ img_size = <<>>
    /\ layout = <<>>
    /\ timeline = <<>>
    /\ line_segments = <<>>
    /\ today_read = <<>>
    /\ now_marker = NoMarker
    /\ error = "none"
    /\ saved = FALSE
    /\ output_path = ""
    /\ files = [p \in {} |-> EmptyFile]
    /\ stdout = <<>>
    /\ request = NoRequest
    /\ handler = "idle"
    /\ response = NoResponse
    /\ invocations = 0
    /\ tmp_path = ""
    /\ tmp_files = {}
    /\ delivered = <<>>
    /\ served = 0
    /\ NoPrimitive
    /\ NoStream

\* the requests are served within one reading of the clock
ServersNext ==
    \/ RestGenerate
    \/ RestRespond
    \/ SseToolsCall
    \/ SseRespond
    \/ StdioCallTool
    \/ StdioRespond
    \/ CreateCanvas
    \/ CanvasFails
    \/ DrawHeader
    \/ DrawTimeline
    \/ IsToday
    \/ DrawNowMarker
    \/ SaveImage
    \/ SaveFails

Servers == ServersInit /\ [][ServersNext]_vars

----------------------------------------------------------------------------
(* Vocabulary of the properties: the record as given, the slots of the     *)
(* axis, and the segments of an hour                                       *)

\* the segment list is complete (draw_timeline is past its segment loop)
SegmentsBuilt == pc \in {"is_today", "now_marker", "legend", "done"}

HasKey(h) == HourKey(h) \in DOMAIN data
IsPartialHour(h) == HasKey(h) /\ data[HourKey(h)] = PARTIAL

\* the color the fixed table gives an hour: green for the available symbol
\* or an absent key, orange for the unavailable symbol, gray otherwise
TableColor(h) ==
    IF ~HasKey(h) THEN <<52, 199, 89>>
    ELSE IF data[HourKey(h)] = AVAILABLE THEN <<52, 199, 89>>
    ELSE IF data[HourKey(h)] = UNAVAILABLE THEN <<255, 107, 0>>
    ELSE <<142, 142, 147>>

SegStart(seg) == IF vertical THEN seg.start_y ELSE seg.start_x
SegEnd(seg) == IF vertical THEN seg.end_y ELSE seg.end_x

AxisStart ==
    Scale * (IF vertical THEN timeline.timeline_y_start ELSE timeline.timeline_x)
AxisLength ==
    Scale * (IF vertical THEN timeline.timeline_height ELSE timeline.timeline_width)

\* the slot of hour h runs from SlotStart(h) to SlotStart(h + 1)
SlotStart(h) == AxisStart + h * (AxisLength \div HOURS)

Between(x, a, b) == (a <= x /\ x <= b) \/ (b <= x /\ x <= a)

\* segment i exists and lies in the slot of hour h
InSlot(i, h) ==
    LET lo == SlotStart(h)
        hi == SlotStart(h + 1)
    IN  /\ i \in DOMAIN line_segments
        /\ Between(SegStart(line_segments[i]), lo, hi)
        /\ Between(SegEnd(line_segments[i]), lo, hi)

PartialHours == {h \in 0..(HOURS - 1) : IsPartialHour(h)}

\* the index of the first segment of hour h: one per earlier hour, one more
\* per earlier Partial hour
FirstSegment(h) == h + 1 + Cardinality({k \in PartialHours : k < h})

AllHoursAbsent == \A h \in 0..(HOURS - 1) : ~HasKey(h)

----------------------------------------------------------------------------
(* C1: default fill. An hour whose key T_HH is absent is drawn as one       *)
(* segment over its slot in the available color; with all 24 keys absent   *)
(* the segment list is 24 segments, all of the available color, in both    *)
(* orientations.                                                           *)
DefaultFill ==
    SegmentsBuilt =>
        /\ LET partial == PartialHours
           IN  \A h \in 0..(HOURS - 1) :
                  ~HasKey(h) =>
                      LET i == h + 1 + Cardinality({k \in partial : k < h})
                      IN  /\ i \in DOMAIN line_segments
                          /\ line_segments[i].color = COLOR_AVAILABLE
                          /\ SegStart(line_segments[i]) = SlotStart(h)
                          /\ SegEnd(line_segments[i]) = SlotStart(h + 1)
        /\ AllHoursAbsent =>
              /\ Len(line_segments) = HOURS
              /\ \A i \in DOMAIN line_segments :
                    line_segments[i].color = COLOR_AVAILABLE

DefaultFillWitness == pc = "done" /\ AllHoursAbsent /\ vertical

(* C2: the state-to-color mapping is total. Available maps to green,        *)
(* unavailable to orange, every other value of an hour field (unknown       *)
(* marker, partial marker, unrecognized symbol, null) to gray; an hour that *)
(* is not Partial is drawn in the color of its value, and no render fails   *)
(* over an hour value: a TypeError comes from a date that is no string.     *)
StateColorTotal ==
    /\ get_state_color(AVAILABLE) = <<52, 199, 89>>
    /\ get_state_color(UNAVAILABLE) = <<255, 107, 0>>
    /\ \A v \in HourValues \ {AVAILABLE, UNAVAILABLE} :
          get_state_color(v) = <<142, 142, 147>>
    /\ SegmentsBuilt =>
          \A h \in 0..(HOURS - 1) :
              (HasKey(h) /\ ~IsPartialHour(h)) =>
                  /\ FirstSegment(h) \in DOMAIN line_segments
                  /\ line_segments[FirstSegment(h)].color = TableColor(h)
    /\ pc = "failed" =>
          \/ error \in {"MemoryError", "OSError"}
          \/ error = "TypeError" /\ "T_Date" \in DOMAIN data
                                 /\ data["T_Date"] = None

StateColorTotalWitness ==
    /\ pc = "done"
    /\ \E h \in 0..(HOURS - 1) : HasKey(h) /\ data[HourKey(h)] = None

(* C3: a Partial hour h in 1..22 is drawn as exactly two segments in its    *)
(* slot: slot start to slot midpoint in the color of hour h-1, slot         *)
(* midpoint to slot end in the color of hour h+1, an absent neighbor        *)
(* counting as Available.                                                   *)
PartialSplit ==
    SegmentsBuilt =>
        \A h \in 1..(HOURS - 2) :
            IsPartialHour(h) =>
                LET i == FirstSegment(h)
                IN  /\ InSlot(i, h) /\ InSlot(i + 1, h)
                    /\ ~InSlot(i - 1, h) /\ ~InSlot(i + 2, h)
                    /\ SegStart(line_segments[i]) = SlotStart(h)
                    /\ 2 * SegEnd(line_segments[i]) = SlotStart(h) + SlotStart(h + 1)
                    /\ line_segments[i].color = TableColor(h - 1)
                    /\ SegStart(line_segments[i + 1]) = SegEnd(line_segments[i])
                    /\ SegEnd(line_segments[i + 1]) = SlotStart(h + 1)
                    /\ line_segments[i + 1].color = TableColor(h + 1)

PartialSplitWitness ==
    /\ pc = "done"
    /\ ~vertical
    /\ \E h \in 1..(HOURS - 2) :
          /\ IsPartialHour(h)
          /\ HasKey(h - 1) /\ data[HourKey(h - 1)] = UNAVAILABLE
          /\ ~HasKey(h + 1)

(* C4: edge rule. When hour 0 is Partial its first half has the color of    *)
(* hour 0's own state and its second half the color of hour 1; when hour 23 *)
(* is Partial its second half has the color of hour 23's own state and its  *)
(* first half the color of hour 22.                                         *)
PartialEdgeRule ==
    SegmentsBuilt =>
        /\ IsPartialHour(0) =>
              /\ Len(line_segments) >= 2
              /\ line_segments[1].color = TableColor(0)
              /\ line_segments[2].color = TableColor(1)
        /\ IsPartialHour(HOURS - 1) =>
              LET i == FirstSegment(HOURS - 1)
              IN  /\ i + 1 \in DOMAIN line_segments
                  /\ line_segments[i].color = TableColor(HOURS - 2)
                  /\ line_segments[i + 1].color = TableColor(HOURS - 1)

PartialEdgeRuleWitness ==
    /\ pc = "done"
    /\ IsPartialHour(HOURS - 1)
    /\ HasKey(HOURS - 2) /\ data[HourKey(HOURS - 2)] = UNAVAILABLE

\* the record of the round-trip scenario
RoundTripRecord == MakeData(RoundTripHours, Date_20_11_2025)

\* in the round-trip render, every hour but 16 is one segment: hour 6 in the
\* unavailable color, the others available; hour 16 starts available
RoundTripWholeHours ==
    /\ Len(line_segments) = HOURS + 1
    /\ \A h \in 0..15 :
          line_segments[h + 1].color =
              IF h = 6 THEN COLOR_UNAVAILABLE ELSE COLOR_AVAILABLE
    /\ \A h \in 17..(HOURS - 1) : line_segments[h + 2].color = COLOR_AVAILABLE
    /\ line_segments[17].color = COLOR_AVAILABLE
    /\ 2 * SegEnd(line_segments[17]) = SlotStart(16) + SlotStart(17)

(* C5 as stated: in the round-trip scenario hour 16 is split with its       *)
(* first half available and its second half unavailable.                    *)
RoundTripAsStated ==
    (SegmentsBuilt /\ data = RoundTripRecord) =>
        /\ RoundTripWholeHours
        /\ line_segments[18].color = COLOR_UNAVAILABLE

(* C5 amended: in the round-trip scenario hours 0-5, 7-15, 17-23 are        *)
(* available, hour 6 unavailable, and hour 16 is split at its midpoint with *)
(* both halves in the available color (hours 15 and 17 are absent, hence    *)
(* Available).                                                              *)
RoundTripScenario ==
    (SegmentsBuilt /\ data = RoundTripRecord) =>
        /\ RoundTripWholeHours
        /\ line_segments[18].color = COLOR_AVAILABLE

RoundTripWitness == pc = "done" /\ data = RoundTripRecord /\ ~vertical

(* C6: exactly 24 slots. Each hour 0..23 has one segment in its slot, two   *)
(* iff its state is Partial, whatever keys are present (T_24 included), so  *)
(* the list has 24 + (number of Partial hours) segments: the segments of    *)
(* hour h are consecutive in the list, and the ones before and after them   *)
(* lie outside its slot.                                                    *)
SlotCount ==
    SegmentsBuilt =>
        LET partial == PartialHours
            first(h) == h + 1 + Cardinality({k \in partial : k < h})
        IN  /\ Len(line_segments) = HOURS + Cardinality(partial)
            /\ \A h \in 0..(HOURS - 1) :
                  LET i == first(h)
                      n == IF h \in partial THEN 2 ELSE 1
                  IN  /\ \A j \in i..(i + n - 1) : InSlot(j, h)
                      /\ ~InSlot(i - 1, h)
                      /\ ~InSlot(i + n, h)

SlotCountWitness ==
    /\ pc = "done"
    /\ "T_24" \in DOMAIN data
    /\ data["T_24"] = PARTIAL

(* C8: the canvas is 1024x250 when horizontal and 250x1024 when vertical,   *)
(* for every record.                                                        *)
CanvasSizeByOrientation ==
    img_size # <<>> =>
        img_size = IF vertical THEN <<250, 1024>> ELSE <<1024, 250>>

CanvasSizeWitness == pc = "done" /\ vertical /\ ~AllHoursAbsent

(* C7: segment boundaries never overlap. Every segment has start < end,    *)
(* the first starts at the axis start, the last ends at axis start + axis  *)
(* length, each segment ends where the next starts, every segment of an    *)
(* hour lies inside that hour's slot, and the two segments of a Partial    *)
(* hour meet at the slot midpoint.                                         *)
SegmentsContiguous ==
    SegmentsBuilt =>
        LET partial == PartialHours
            n == Len(line_segments)
        IN  /\ n >= 1
            /\ \A i \in 1..n :
                  SegStart(line_segments[i]) < SegEnd(line_segments[i])
            /\ SegStart(line_segments[1]) = AxisStart
            /\ SegEnd(line_segments[n]) = AxisStart + AxisLength
            /\ \A i \in 1..(n - 1) :
                  SegEnd(line_segments[i]) = SegStart(line_segments[i + 1])
            /\ \A h \in 0..(HOURS - 1) :
                  LET i == h + 1 + Cardinality({k \in partial : k < h})
                  IN  /\ i \in 1..n
                      /\ SlotStart(h) <= SegStart(line_segments[i])
                      /\ SegEnd(line_segments[i]) <= SlotStart(h + 1)
                      /\ h \in partial =>
                            /\ i + 1 \in 1..n
                            /\ 2 * SegEnd(line_segments[i])
                                  = SlotStart(h) + SlotStart(h + 1)
                            /\ SegEnd(line_segments[i + 1]) <= SlotStart(h + 1)

\* the DD-MM-YYYY text of the date <<year, month, day>>
FormatDate(date) ==
    << Digit[(date[3] \div 10) + 1], Digit[(date[3] % 10) + 1], "-",
       Digit[(date[2] \div 10) + 1], Digit[(date[2] % 10) + 1], "-",
       Digit[(date[1] \div 1000) + 1], Digit[((date[1] \div 100) % 10) + 1],
       Digit[((date[1] \div 10) % 10) + 1], Digit[(date[1] % 10) + 1] >>

\* the record carries a date, and it is this one
RecordDateIs(date) ==
    "T_Date" \in DOMAIN data /\ data["T_Date"] = FormatDate(date)

\* draw_timeline is past its now-marker block
MarkerDecided == pc \in {"legend", "done"}

(* C9: the now-marker is drawn if and only if the record's date is the     *)
(* calendar date the wall clock shows when the render compares them, in    *)
(* both orientations and at every time of day.                             *)
NowMarkerIffToday ==
    MarkerDecided => (now_marker.drawn <=> RecordDateIs(today_read))

NowMarkerWitness == pc = "done" /\ now_marker.drawn /\ ~vertical

\* the date values that do not parse as DD-MM-YYYY: a missing key, the empty
\* text, free text, another format, a day the month lacks, trailing text
MalformedDate ==
    \/ "T_Date" \notin DOMAIN data
    \/ data["T_Date"] \in {DateEmpty, DateFreeText, DateWrongFormat,
                           DateNoSuchDay, DateTrailingSpace, DateTall}

\* the render of the same hour fields and orientation with a well-formed date
\* that is not today (19-11-2025): its layout, axis and segments
ReferenceLayout ==
    IF vertical THEN VerticalLayout(Date_19_11_2025, CanvasSize(vertical)[2])
    ELSE HorizontalLayout

ReferenceTimeline ==
    IF vertical
    THEN VerticalAxis(ReferenceLayout.timeline_content_y,
                      ReferenceLayout.timeline_card_height)
    ELSE HorizontalAxis(CanvasSize(vertical)[1])

ReferenceSegments ==
    IF vertical THEN VerticalSegments(data, ReferenceTimeline, 0)
    ELSE HorizontalSegments(data, ReferenceTimeline, 0)

(* C10: a date that does not parse as DD-MM-YYYY is never an error in the   *)
(* today-comparison. It counts as not today, the render is not failed by   *)
(* it, no now-marker is drawn, and the axis (hence the ticks), the segments *)
(* and the legend position are those of the render of the same hours with  *)
(* a well-formed date that is not today.                                    *)
MalformedDateOnlySuppressesMarker ==
    MalformedDate =>
        /\ pc # "now_marker"
        /\ ~now_marker.drawn
        /\ pc = "failed" => error \in {"MemoryError", "OSError"}
        /\ SegmentsBuilt =>
              /\ layout.legend_y = ReferenceLayout.legend_y
              /\ timeline = ReferenceTimeline
              /\ line_segments = ReferenceSegments

----------------------------------------------------------------------------
(* Vocabulary of the front ends' properties                                *)

\* a front end has answered the request
Responded == handler = "responded"

\* the request's grid data has no date field
DateMissing == "T_Date" \notin DOMAIN request.grid_data

\* generate_image was called for the request and returned / raised
RenderReturned == invocations = 1 /\ pc = "done"
RenderRaised == invocations = 1 /\ pc = "failed"

(* C11: in every front end (REST, JSON-RPC over SSE, stdio tool call) a    *)
(* request whose grid data lacks the date field is answered with a         *)
(* client-input error (REST: 422; JSON-RPC: -32602; stdio: the text that   *)
(* T_Date is required, when the call names one of the two tools),         *)
(* generate_image is never called for it, and no temporary file is         *)
(* created for it: it is answered at once.                                 *)
MissingDateRejected ==
    (request.adapter # "none" /\ DateMissing) =>
        /\ Responded
        /\ invocations = 0
        /\ tmp_path = ""
        /\ response.form = "error"
        /\ request.adapter = "rest" => response.code = 422
        /\ request.adapter = "sse" => response.code = -32602
        /\ (request.adapter = "stdio" /\ request.tool \in {TOOL, TOOL_VERTICAL}) =>
              response.message = "Error: T_Date is required in grid_data"

MissingDateRejectedWitness ==
    /\ Responded
    /\ DateMissing
    /\ request.adapter = "sse"
    /\ served = 2
    /\ tmp_files # {}

(* C12: when generate_image raises while a request is served (the canvas   *)
(* cannot be created, the output cannot be written, the date is no text),  *)
(* the caller gets an internal error (REST: 500; JSON-RPC: -32603; stdio:  *)
(* an error text) that carries the exception, and generate_image is       *)
(* called at most once for a request.                                      *)
RendererFailureIsInternalError ==
    /\ invocations <= 1
    /\ (Responded /\ RenderRaised) =>
          /\ error \in {"MemoryError", "TypeError", "OSError"}
          /\ response.form = "error"
          /\ response.message = "Error generating grid image: " \o error
          /\ request.adapter = "rest" => response.code = 500
          /\ request.adapter = "sse" => response.code = -32603
          /\ request.adapter = "stdio" => response.code = 0

RendererFailureWitness ==
    /\ Responded
    /\ RenderRaised
    /\ error = "OSError"
    /\ request.adapter = "rest"

(* C13: after a request is answered nothing acquired for it is still held: *)
(* no temporary file exists except the ones whose path was handed to a     *)
(* caller as the output, so the temporary files do not pile up.            *)
ResourcesReleased ==
    Responded =>
        \A p \in tmp_files :
            p \in DOMAIN files =>
                \E i \in DOMAIN delivered : delivered[i].path = p

(* C14: requests do not interfere: an output handed to a caller stays the  *)
(* image that was rendered for that caller, whatever requests are served   *)
(* after it; no request overwrites another request's output.               *)
RequestsIsolated ==
    \A i \in DOMAIN delivered :
        /\ delivered[i].path \in DOMAIN files
        /\ files[delivered[i].path] = delivered[i].image

(* C15: a render has no effect but its one output: it leaves the input     *)
(* record as it was, writes no file but the one at output_path, and        *)
(* emits nothing else (nothing on standard output).                        *)
RenderSideEffectFree ==
    [][/\ data' = data
       /\ stdout' = stdout
       /\ \A p \in DOMAIN files' :
             p = output_path \/ (p \in DOMAIN files /\ files'[p] = files[p])]_vars

(* C16: in the REST endpoint, when the vertical flag is sent both in the   *)
(* body and as a query parameter, the orientation rendered is the query    *)
(* parameter's, for every combination of the two values.                   *)
QueryVerticalTakesPrecedence ==
    (/\ request.adapter = "rest"
     /\ invocations = 1
     /\ request.vertical # "absent"
     /\ request.query_vertical # "absent") =>
        vertical = (request.query_vertical = "true")

\* the file name the REST handler suggests for the date 20-11-2025
FileName_20_11_2025 ==
    <<"grid_availability_", "2", "0", "_", "1", "1", "_", "2", "0", "2", "5",
      ".png">>

(* C17 as stated: every front end returns the image's bytes, raw with      *)
(* content type image/png and the file name grid_availability_<date with   *)
(* "_" for "-">.png when the base64 flag is false, as a base64 string in   *)
(* an envelope when it is true.                                            *)
TwoFormsInEveryFrontEnd ==
    (Responded /\ RenderReturned) =>
        IF request.return_base64
        THEN /\ response.form = "base64"
             /\ response.envelope # "none"
             /\ response.content = b64encode(files[output_path])
        ELSE /\ response.form = "binary"
             /\ response.media_type = "image/png"
             /\ response.filename = FileName_20_11_2025
             /\ response.content = files[output_path]

(* C17 amended: with the base64 flag true every front end returns the      *)
(* base64 string of the rendered image's bytes in its envelope, typed      *)
(* image/png. With the flag false the REST handler returns the raw bytes   *)
(* with content type image/png and the file name derived from the date;    *)
(* the JSON-RPC handler and the stdio tool return no bytes but a text      *)
(* naming the path of the file that holds the image.                       *)
ResponseForms ==
    (Responded /\ RenderReturned) =>
        /\ files[output_path] = RenderedImage
        /\ IF request.return_base64
           THEN /\ response.form = "base64"
                /\ response.envelope =
                       (IF request.adapter = "rest" THEN "json"
                        ELSE IF request.adapter = "sse" THEN "jsonrpc"
                        ELSE "tool")
                /\ response.media_type = "image/png"
                /\ response.content.encoding = "base64"
                /\ response.content.decoded = RenderedImage
           ELSE IF request.adapter = "rest"
           THEN /\ response.form = "binary"
                /\ response.code = 200
                /\ response.media_type = "image/png"
                /\ response.filename = FileName_20_11_2025
                /\ response.content = RenderedImage
           ELSE /\ response.form = "path"
                /\ response.path = output_path
                /\ response.content = EmptyFile

ResponseFormsWitness ==
    /\ Responded
    /\ RenderReturned
    /\ request.adapter = "rest"
    /\ ~request.return_base64
    /\ vertical

\* the positions generate_image computes for example_data's date, 20-11-2025
ExampleLayout ==
    IF vertical THEN VerticalLayout(Date_20_11_2025, 1024) ELSE HorizontalLayout

\* generate_image has computed its positions
LayoutDone == pc \in {"timeline", "is_today", "now_marker", "legend", "done"}

(* C18: the layout is a function of the orientation and the constants      *)
(* only. Whatever the record (its date text, its hour states), the         *)
(* separator, the timeline card, the legend and the axis of a render are   *)
(* where they are for any other record in the same orientation.            *)
LayoutFixedByOrientation ==
    /\ LayoutDone =>
          /\ layout.separator_y = ExampleLayout.separator_y
          /\ layout.timeline_card_y = ExampleLayout.timeline_card_y
          /\ layout.timeline_card_height = ExampleLayout.timeline_card_height
          /\ layout.legend_y = ExampleLayout.legend_y
    /\ SegmentsBuilt =>
          timeline = IF vertical
                     THEN VerticalAxis(ExampleLayout.timeline_content_y,
                                       ExampleLayout.timeline_card_height)
                     ELSE HorizontalAxis(1024)

(* C19 as stated: a Partial hour at an edge (0 or 23) has both halves in    *)
(* the color of its own state, whatever its one neighbor is.                *)
EdgeHalvesOwnState ==
    SegmentsBuilt =>
        /\ IsPartialHour(0) =>
              /\ line_segments[1].color = TableColor(0)
              /\ line_segments[2].color = TableColor(0)
        /\ IsPartialHour(HOURS - 1) =>
              /\ line_segments[Len(line_segments) - 1].color = TableColor(HOURS - 1)
              /\ line_segments[Len(line_segments)].color = TableColor(HOURS - 1)

(* C19 amended: a Partial hour at an edge has only its outer half (the      *)
(* first half of hour 0, the second half of hour 23) in the color of its   *)
(* own state, which is gray whatever the neighbor is; the inner half has   *)
(* the color of the one existing neighbor, so the two halves are alike     *)
(* only when the neighbor's color is gray too.                             *)
EdgeOuterHalfOwnState ==
    SegmentsBuilt =>
        LET n == Len(line_segments)
        IN  /\ IsPartialHour(0) =>
                  /\ line_segments[1].color = <<142, 142, 147>>
                  /\ (line_segments[2].color = <<142, 142, 147>>)
                         <=> (TableColor(1) = <<142, 142, 147>>)
                  /\ line_segments[2].color # <<142, 142, 147>> =>
                         line_segments[2].color = TableColor(1)
            /\ IsPartialHour(HOURS - 1) =>
                  /\ line_segments[n].color = <<142, 142, 147>>
                  /\ (line_segments[n - 1].color = <<142, 142, 147>>)
                         <=> (TableColor(HOURS - 2) = <<142, 142, 147>>)
                  /\ line_segments[n - 1].color # <<142, 142, 147>> =>
                         line_segments[n - 1].color = TableColor(HOURS - 2)

EdgeOuterHalfWitness ==
    /\ pc = "done"
    /\ vertical
    /\ IsPartialHour(0)
    /\ HasKey(1) /\ data[HourKey(1)] = UNAVAILABLE

(* C20: the neighbor of a Partial hour is looked up once, raw. A half is   *)
(* green exactly when the neighboring hour's value is the available symbol *)
(* or its key is absent, orange exactly when it is the unavailable symbol, *)
(* and gray for every other value, Partial included: of two adjacent       *)
(* Partial hours each has a gray half facing the other.                    *)
NeighborRawLookup ==
    SegmentsBuilt =>
        LET partial == PartialHours
            green(h) == ~HasKey(h) \/ data[HourKey(h)] = AVAILABLE
            orange(h) == HasKey(h) /\ data[HourKey(h)] = UNAVAILABLE
            facing(seg, h) ==
                /\ (seg.color = <<52, 199, 89>>) <=> green(h)
                /\ (seg.color = <<255, 107, 0>>) <=> orange(h)
                /\ (seg.color = <<142, 142, 147>>) <=> ~(green(h) \/ orange(h))
        IN  \A h \in partial :
                LET i == h + 1 + Cardinality({k \in partial : k < h})
                IN  /\ h >= 1 => facing(line_segments[i], h - 1)
                    /\ h <= HOURS - 2 => facing(line_segments[i + 1], h + 1)
                    /\ (h + 1) \in partial =>
                          /\ line_segments[i + 1].color = <<142, 142, 147>>
                          /\ line_segments[i + 2].color = <<142, 142, 147>>

NeighborRawLookupWitness ==
    /\ pc = "done"
    /\ \E h \in 1..(HOURS - 2) :
          /\ IsPartialHour(h) /\ IsPartialHour(h + 1)
          /\ HasKey(h - 1) /\ data[HourKey(h - 1)] = UNAVAILABLE

(***************************************************************************)
(* The drawing primitives draw_rounded_rectangle and draw_dashed_line, run *)
(* on their own with arguments drawn from bounded sets.                    *)
(***************************************************************************)

\* no render is in progress
NoRender ==
    /\ data = MakeData(NoHours, Absent)
    /\ vertical = FALSE
    /\ clock = 1
    /\ pc = "idle"
    /\ img_size = <<>>
    /\ layout = <<>>
    /\ timeline = <<>>
    /\ line_segments = <<>>
    /\ today_read = <<>>
    /\ now_marker = NoMarker
    /\ error = "none"
    /\ saved = FALSE
    /\ output_path = ""
    /\ files = [p \in {} |-> EmptyFile]
    /\ stdout = <<>>

\* the longest side of a box and the largest requested radius, in pixels
MaxSide == 6
MaxRadius == 4

\* the longest line, the longest dash and the longest gap, in pixels
MaxLength == 12
MaxDash == 3
MaxGap == 3

\* the coordinates of the shapes of a rounded rectangle are in 1/Half pixel,
\* which makes (x2 - x1) / 2 a whole number
Half == 2

Least(S) == CHOOSE x \in S : \A y \in S : x <= y

\* the radius as requested
BadClampedRadius(bbox, radius) == Half * radius

\* radius = min(radius, (x2 - x1) / 2, (y2 - y1) / 2), in 1/Half pixel
ClampedRadius(bbox, radius) ==
    Least({Half * radius, bbox[3] - bbox[1], bbox[4] - bbox[2]})

\* draw.rectangle and draw.ellipse with their bounding boxes
Rectangle(x1, y1, x2, y2) == [kind |-> "rectangle", box |-> <<x1, y1, x2, y2>>]
Ellipse(x1, y1, x2, y2) == [kind |-> "ellipse", box |-> <<x1, y1, x2, y2>>]

\* the fill without its second rectangle
BadRoundedRectangle(bbox, radius) ==
    LET x1 == Half * bbox[1]
        y1 == Half * bbox[2]
        x2 == Half * bbox[3]
        y2 == Half * bbox[4]
        r  == ClampedRadius(bbox, radius)
    IN  << Rectangle(x1 + r, y1, x2 - r, y2),
           Ellipse(x1, y1, x1 + 2 * r, y1 + 2 * r),
           Ellipse(x2 - 2 * r, y1, x2, y1 + 2 * r),
           Ellipse(x1, y2 - 2 * r, x1 + 2 * r, y2),
           Ellipse(x2 - 2 * r, y2 - 2 * r, x2, y2) >>

\* the shapes draw_rounded_rectangle draws for a fill, in drawing order
draw_rounded_rectangle(bbox, radius) ==
    LET x1 == Half * bbox[1]
        y1 == Half * bbox[2]
        x2 == Half * bbox[3]
        y2 == Half * bbox[4]
        r  == ClampedRadius(bbox, radius)
    IN  << Rectangle(x1 + r, y1, x2 - r, y2),
           Rectangle(x1, y1 + r, x2, y2 - r),
           Ellipse(x1, y1, x1 + 2 * r, y1 + 2 * r),
           Ellipse(x2 - 2 * r, y1, x2, y1 + 2 * r),
           Ellipse(x1, y2 - 2 * r, x1 + 2 * r, y2),
           Ellipse(x2 - 2 * r, y2 - 2 * r, x2, y2) >>

\* (dx**2 + dy**2)**0.5, for the lines whose length is a whole number
Sqrt(n) == CHOOSE r \in 0..n : r * r = n

total_length(points) ==
    LET dx == points[2][1] - points[1][1]
        dy == points[2][2] - points[1][2]
    IN  Sqrt(dx * dx + dy * dy)

\* a dash that is never clipped
BadDash(points, pos, dash_length) ==
    LET L  == total_length(points)
        dx == points[2][1] - points[1][1]
        dy == points[2][2] - points[1][2]
        dash_end == pos + dash_length
    IN  [kind |-> "line", from |-> pos, to |-> dash_end,
         start |-> <<points[1][1] * L + dx * pos, points[1][2] * L + dy * pos>>,
         end   |-> <<points[1][1] * L + dx * dash_end,
                     points[1][2] * L + dy * dash_end>>]

\* the dash drawn at current_pos: it ends at min(current_pos + dash_length,
\* total_length); its end points are in 1/total_length pixel
Dash(points, pos, dash_length) ==
    LET L  == total_length(points)
        dx == points[2][1] - points[1][1]
        dy == points[2][2] - points[1][2]
        dash_end == Least({pos + dash_length, L})
    IN  [kind |-> "line", from |-> pos, to |-> dash_end,
         start |-> <<points[1][1] * L + dx * pos, points[1][2] * L + dy * pos>>,
         end   |-> <<points[1][1] * L + dx * dash_end,
                     points[1][2] * L + dy * dash_end>>]

\* a step that is one pixel too long
BadNextPos(pos, dash_length, gap_length) == pos + dash_length + gap_length + 1

\* current_pos += dash_length + gap_length
NextPos(pos, dash_length, gap_length) == pos + dash_length + gap_length

\* the boxes and radii of the calls
RoundedRectangleCalls ==
    { [NoCall EXCEPT !.name = "draw_rounded_rectangle",
                     !.bbox = <<1, 1, 1 + w, 1 + h>>, !.radius = r] :
        w \in 0..MaxSide, h \in 0..MaxSide, r \in 0..MaxRadius }

Origin == <<0, 0>>

\* point lists: lines along an axis in both directions, a slanted line, the
\* zero-length line, and lists of one and of three points
PointLists ==
    { <<Origin, <<l, 0>>>> : l \in 0..MaxLength }
        \cup { <<<<l, 2>>, <<0, 2>>>> : l \in 1..MaxLength }
        \cup { <<<<1, 0>>, <<1, l>>>> : l \in 1..MaxLength }
        \cup { <<Origin, <<3, 4>>>>, <<Origin>>, <<Origin, <<3, 0>>, <<6, 0>>>> }

\* the two calls of the renderer: the mark of the current time across the
\* vertical axis (lines 302-307) and across the horizontal one (420-425)
RendererDashedCalls ==
    { [NoCall EXCEPT !.name = "draw_dashed_line", !.points = p,
                     !.dash_length = 4, !.gap_length = 6] :
        p \in { <<<<100, 50>>, <<140, 50>>>>, <<<<50, 70>>, <<50, 140>>>> } }

\* a dash and a gap are lengths whose sum is positive
DashAndGap == { dg \in (0..MaxDash) \X (0..MaxGap) : dg[1] + dg[2] > 0 }

DashedLineCalls ==
    { [NoCall EXCEPT !.name = "draw_dashed_line", !.points = p,
                     !.dash_length = dg[1], !.gap_length = dg[2]] :
        p \in PointLists, dg \in DashAndGap }
        \cup RendererDashedCalls

PrimitivesInit ==
    /\ NoRender
    /\ NoAdapter
    /\ prim_call \in RoundedRectangleCalls \cup DashedLineCalls
    /\ prim_pc = "start"
    /\ current_pos = 0
    /\ shapes = <<>>
    /\ NoStream

\* lines 39-53
DrawRoundedRectangle ==
    /\ prim_pc = "start"
    /\ prim_call.name = "draw_rounded_rectangle"
    /\ shapes' = draw_rounded_rectangle(prim_call.bbox, prim_call.radius)
    /\ prim_pc' = "returned"
    /\ UNCHANGED <<prim_call, current_pos, render_vars, adapter_vars,
                   stream_vars>>

\* lines 103-122: the two early returns, or current_pos = 0
DashedLineEnter ==
    /\ prim_pc = "start"
    /\ prim_call.name = "draw_dashed_line"
    /\ prim_pc' = IF Len(prim_call.points) # 2 THEN "returned"
                  ELSE IF total_length(prim_call.points) = 0 THEN "returned"
                  ELSE "loop"
    /\ current_pos' = 0
    /\ UNCHANGED <<prim_call, shapes, render_vars, adapter_vars,
                   stream_vars>>

\* lines 124-138: one turn of the loop
DashedLineDash ==
    /\ prim_pc = "loop"
    /\ current_pos < total_length(prim_call.points)
    /\ shapes' = Append(shapes,
                        Dash(prim_call.points, current_pos, prim_call.dash_length))
    /\ current_pos' = NextPos(current_pos, prim_call.dash_length,
                              prim_call.gap_length)
    /\ UNCHANGED <<prim_call, prim_pc, render_vars, adapter_vars,
                   stream_vars>>

\* line 124: the loop condition is false
DashedLineExit ==
    /\ prim_pc = "loop"
    /\ ~(current_pos < total_length(prim_call.points))
    /\ prim_pc' = "returned"
    /\ UNCHANGED <<prim_call, current_pos, shapes, render_vars, adapter_vars,
                   stream_vars>>

PrimitivesNext ==
    \/ DrawRoundedRectangle
    \/ DashedLineEnter
    \/ DashedLineDash
    \/ DashedLineExit

Primitives == PrimitivesInit /\ [][PrimitivesNext]_vars

\* a call that has begun runs on
FairPrimitives == Primitives /\ WF_vars(PrimitivesNext)

(***************************************************************************)
(* Claims about the drawing primitives.                                    *)
(***************************************************************************)

RoundedRectangleDrawn ==
    prim_call.name = "draw_rounded_rectangle" /\ prim_pc = "returned"

\* the box of the call in 1/Half pixel
BoxLeft == Half * prim_call.bbox[1]
BoxTop == Half * prim_call.bbox[2]
BoxRight == Half * prim_call.bbox[3]
BoxBottom == Half * prim_call.bbox[4]

\* the radius the corners were drawn with: half the side of the first
\* corner's bounding square
DrawnRadius == (shapes[3].box[3] - shapes[3].box[1]) \div 2

\* C21: the radius the corners are drawn with is the smallest of the
\* requested radius, half the width and half the height of the box; so the
\* two inset rectangles are not inverted (x1 + r <= x2 - r and
\* y1 + r <= y2 - r) and the bounding square of every corner disk has side
\* 2r and lies inside the box.
RadiusClamped ==
    RoundedRectangleDrawn =>
        LET r == DrawnRadius
            requested == Half * prim_call.radius
            half_width == (BoxRight - BoxLeft) \div 2
            half_height == (BoxBottom - BoxTop) \div 2
        IN  /\ r <= requested /\ r <= half_width /\ r <= half_height
            /\ r \in {requested, half_width, half_height}
            /\ shapes[1].box[1] = BoxLeft + r /\ shapes[1].box[3] = BoxRight - r
            /\ shapes[2].box[2] = BoxTop + r /\ shapes[2].box[4] = BoxBottom - r
            /\ BoxLeft + r <= BoxRight - r
            /\ BoxTop + r <= BoxBottom - r
            /\ \A i \in 3..6 :
                  /\ shapes[i].kind = "ellipse"
                  /\ shapes[i].box[3] - shapes[i].box[1] = 2 * r
                  /\ shapes[i].box[4] - shapes[i].box[2] = 2 * r
                  /\ BoxLeft <= shapes[i].box[1] /\ shapes[i].box[3] <= BoxRight
                  /\ BoxTop <= shapes[i].box[2] /\ shapes[i].box[4] <= BoxBottom

\* a call whose requested radius exceeds half the shorter side
RadiusClampedWitness ==
    /\ RoundedRectangleDrawn
    /\ Half * prim_call.radius > BoxRight - BoxLeft
    /\ BoxBottom - BoxTop > BoxRight - BoxLeft
    /\ BoxRight > BoxLeft
    /\ Len(shapes) = 6

\* a point lies in a drawn shape: a closed rectangle, or the closed ellipse
\* inscribed in its bounding box
Inside(shape, px, py) ==
    LET a == shape.box[1]
        b == shape.box[2]
        c == shape.box[3]
        d == shape.box[4]
    IN  /\ a <= px /\ px <= c /\ b <= py /\ py <= d
        /\ (shape.kind = "ellipse" /\ c > a /\ d > b) =>
              (2 * px - a - c) * (2 * px - a - c) * (d - b) * (d - b)
                + (2 * py - b - d) * (2 * py - b - d) * (c - a) * (c - a)
                  <= (c - a) * (c - a) * (d - b) * (d - b)

Filled(px, py) == \E i \in DOMAIN shapes : Inside(shapes[i], px, py)

\* the points around the box, two units beyond each side
LatticeX == (BoxLeft - 2)..(BoxRight + 2)
LatticeY == (BoxTop - 2)..(BoxBottom + 2)

\* the r x r square of each corner of the box with the centre of the
\* corner's disk, for the radius min(requested, width/2, height/2)
Corners ==
    LET r0 == Half * prim_call.radius
        r1 == IF BoxRight - BoxLeft < 2 * r0 THEN (BoxRight - BoxLeft) \div 2 ELSE r0
        r  == IF BoxBottom - BoxTop < 2 * r1 THEN (BoxBottom - BoxTop) \div 2 ELSE r1
    IN  { [left |-> BoxLeft, top |-> BoxTop, cx |-> BoxLeft + r, cy |-> BoxTop + r, r |-> r],
          [left |-> BoxRight - r, top |-> BoxTop, cx |-> BoxRight - r, cy |-> BoxTop + r, r |-> r],
          [left |-> BoxLeft, top |-> BoxBottom - r, cx |-> BoxLeft + r, cy |-> BoxBottom - r, r |-> r],
          [left |-> BoxRight - r, top |-> BoxBottom - r, cx |-> BoxRight - r, cy |-> BoxBottom - r, r |-> r] }

InCornerSquare(c, px, py) ==
    /\ c.left <= px /\ px <= c.left + c.r
    /\ c.top <= py /\ py <= c.top + c.r

InCornerDisk(c, px, py) ==
    (px - c.cx) * (px - c.cx) + (py - c.cy) * (py - c.cy) <= c.r * c.r

\* C22: the fill of a rounded rectangle has no gap and no bleed. Every
\* point of the box outside the four r x r corner squares is filled; inside
\* a corner square exactly the points of that corner's disk are filled; no
\* point outside the box is filled.
RoundedFillExact ==
    RoundedRectangleDrawn =>
        \A px \in LatticeX, py \in LatticeY :
            LET in_box == /\ BoxLeft <= px /\ px <= BoxRight
                          /\ BoxTop <= py /\ py <= BoxBottom
            IN  /\ Filled(px, py) => in_box
                /\ (in_box /\ \A c \in Corners : ~InCornerSquare(c, px, py))
                      => Filled(px, py)
                /\ \A c \in Corners :
                      InCornerSquare(c, px, py)
                          => (Filled(px, py) <=> InCornerDisk(c, px, py))

\* a radius smaller than half the shorter side, that leaves a point of a
\* corner square unfilled and fills the middle of every side
RoundedFillExactWitness ==
    /\ RoundedRectangleDrawn
    /\ 2 * Half * prim_call.radius < BoxRight - BoxLeft
    /\ 2 * Half * prim_call.radius < BoxBottom - BoxTop
    /\ prim_call.radius >= 2
    /\ ~Filled(BoxLeft, BoxTop) /\ ~Filled(BoxRight - 1, BoxBottom)
    /\ Filled(BoxLeft, BoxTop + Half * prim_call.radius)
    /\ Filled(BoxLeft + 1, BoxTop + 2) /\ ~Filled(BoxLeft + 1, BoxTop + 1)

DashedLineReturned ==
    prim_call.name = "draw_dashed_line" /\ prim_pc = "returned"

\* the line of the call has two end points at a positive distance
ProperLine ==
    Len(prim_call.points) = 2 /\ total_length(prim_call.points) > 0

\* the number of k >= 0 with k * step < length
StepsBelow(length, step) == Cardinality({ k \in 0..length : k * step < length })

\* C23: a dashed line between two points at distance L > 0 consists of
\* exactly the spans [k(d+g), min(k(d+g) + d, L)] along the line, for
\* k = 0, 1, ... while k(d+g) < L, in that order: a dash starts d + g after
\* the previous one started, which leaves a gap of g, and only the last dash
\* is clipped at L. A line of length zero, or a list of points that has not
\* exactly two points, draws nothing.
DashedSpansExact ==
    DashedLineReturned =>
        IF ~ProperLine THEN shapes = <<>>
        ELSE LET L == total_length(prim_call.points)
                 d == prim_call.dash_length
                 g == prim_call.gap_length
                 p1 == prim_call.points[1]
                 p2 == prim_call.points[2]
                 along(pos) == << p1[1] * L + (p2[1] - p1[1]) * pos,
                                  p1[2] * L + (p2[2] - p1[2]) * pos >>
             IN  /\ Len(shapes) = StepsBelow(L, d + g)
                 /\ \A i \in DOMAIN shapes :
                       LET k == i - 1
                       IN  /\ shapes[i].from = k * (d + g)
                           /\ shapes[i].to = IF k * (d + g) + d < L
                                             THEN k * (d + g) + d ELSE L
                           /\ shapes[i].start = along(shapes[i].from)
                           /\ shapes[i].end = along(shapes[i].to)
                           /\ i < Len(shapes) =>
                                 /\ shapes[i].to = shapes[i].from + d
                                 /\ shapes[i + 1].from - shapes[i].to = g

\* a line of several dashes whose last dash is clipped
DashedSpansExactWitness ==
    /\ DashedLineReturned
    /\ ProperLine
    /\ Len(shapes) >= 3
    /\ prim_call.gap_length > 0
    /\ shapes[Len(shapes)].to - shapes[Len(shapes)].from < prim_call.dash_length
    /\ shapes[Len(shapes)].to > shapes[Len(shapes)].from

\* the least whole number not below length / step
Ceiling(length, step) == (length + step - 1) \div step

\* C24: every call of a primitive returns. The loop of draw_dashed_line,
\* called with dash + gap > 0, ends after exactly ceil(L / (dash + gap))
\* dashes; this includes the two calls of the renderer, with dash 4 and
\* gap 6 on lines of length 40 and 70.
DashedLineTerminates ==
    <>[](/\ prim_pc = "returned"
         /\ (prim_call.name = "draw_dashed_line" /\ ProperLine) =>
               Len(shapes) = Ceiling(total_length(prim_call.points),
                                     prim_call.dash_length + prim_call.gap_length))

\* the renderer's call across the horizontal axis has returned
DashedLineTerminatesWitness ==
    /\ DashedLineReturned
    /\ prim_call \in RendererDashedCalls
    /\ total_length(prim_call.points) = 70
    /\ Len(shapes) = 7
    /\ current_pos = 70

(***************************************************************************)
(* Claims about the mark of the current time.                              *)
(***************************************************************************)

\* C26: the check for today and the position of the mark use one consistent
\* reading of the clock: whenever a mark is drawn, the time of day it shows
\* was read while the calendar date of the wall clock was still the date of
\* the record, also when the render runs across midnight.
MarkerReadOnRecordDate ==
    now_marker.drawn => RecordDateIs(now_marker.date)

(***************************************************************************)
(* The render within one reading of the clock, in both orientations.       *)
(***************************************************************************)

RenderNext ==
    \/ CreateCanvas
    \/ CanvasFails
    \/ DrawHeader
    \/ DrawTimeline
    \/ IsToday
    \/ DrawNowMarker
    \/ SaveImage
    \/ SaveFails

Renders == Init /\ [][RenderNext]_vars

\* the axis and the segments of the same record in the other orientation
OtherAxis ==
    IF vertical THEN HorizontalAxis(CanvasSize(FALSE)[1])
    ELSE LET other == VerticalLayout(get(data, "T_Date", UnknownDate),
                                     CanvasSize(TRUE)[2])
         IN  VerticalAxis(other.timeline_content_y, other.timeline_card_height)

OtherSegments ==
    IF vertical THEN HorizontalSegments(data, OtherAxis, 0)
    ELSE VerticalSegments(data, OtherAxis, 0)

OtherAxisStart ==
    Scale * (IF vertical THEN OtherAxis.timeline_x ELSE OtherAxis.timeline_y_start)
OtherAxisLength ==
    Scale * (IF vertical THEN OtherAxis.timeline_width ELSE OtherAxis.timeline_height)
OtherSegStart(seg) == IF vertical THEN seg.start_x ELSE seg.start_y
OtherSegEnd(seg) == IF vertical THEN seg.end_x ELSE seg.end_y

\* C27: the two orientations agree on every record. The segments of the
\* horizontal and of the vertical render of a record are equally many, have
\* the same colors in the same order, and each segment spans the same
\* fractions of its axis in both.
OrientationsAgree ==
    SegmentsBuilt =>
        LET other == OtherSegments
        IN  /\ Len(other) = Len(line_segments)
            /\ \A i \in DOMAIN line_segments :
                  /\ other[i].color = line_segments[i].color
                  /\ (SegStart(line_segments[i]) - AxisStart) * OtherAxisLength
                        = (OtherSegStart(other[i]) - OtherAxisStart) * AxisLength
                  /\ (SegEnd(line_segments[i]) - AxisStart) * OtherAxisLength
                        = (OtherSegEnd(other[i]) - OtherAxisStart) * AxisLength

\* a vertical render of a record with a Partial hour and three colors
OrientationsAgreeWitness ==
    /\ pc = "done"
    /\ vertical
    /\ PartialHours # {}
    /\ Cardinality({ line_segments[i].color : i \in DOMAIN line_segments }) >= 3

(***************************************************************************)
(* Claims about the tool names and the JSON-RPC messages.                  *)
(***************************************************************************)

\* the request names a tool that is not one of the two listed
UnknownToolCalled ==
    /\ request.adapter \in {"sse", "stdio"}
    /\ request.tool \notin {TOOL, TOOL_VERTICAL}

\* C29: a tool call that names a tool other than the two listed ones never
\* invokes the renderer and is answered with an error, by the stdio server
\* and by the JSON-RPC dispatcher alike.
UnknownToolRejected ==
    UnknownToolCalled =>
        /\ invocations = 0
        /\ Responded
        /\ response.form = "error"

(***************************************************************************)
(* The SSE endpoint: sse_endpoint, sse_stream and handle_mcp_message.      *)
(* The request body arrives in chunks, as the transport delivers them; a   *)
(* chunk is a sequence of lines, and its bytes are the lines' bytes, each  *)
(* followed by a line feed.                                                *)
(***************************************************************************)

\* the most chunks a client sends on one connection
MaxChunks == 2

\* parsed JSON: an object with its members, or an array
JsonObject(members) == [json |-> "object", members |-> members]
JsonArray == [json |-> "array"]

\* message.get("id") of a message without id: None, a JSON null
NoId == "null"

\* params.get("name"), params.get("arguments", {}) and the arguments' fields
\* when params is {}
NoArguments ==
    [adapter |-> "sse", tool |-> "", grid_data |-> MakeData(NoHours, Absent),
     vertical |-> "absent", query_vertical |-> "absent",
     return_base64 |-> FALSE, output_path |-> ""]

\* the messages of a client
ToolsList ==
    JsonObject([jsonrpc |-> "2.0", id |-> "1", method |-> "tools/list"])
Initialize ==
    JsonObject([jsonrpc |-> "2.0", id |-> "2", method |-> "initialize"])
Ping ==
    JsonObject([jsonrpc |-> "2.0", id |-> "3", method |-> "ping"])
\* a notification has no id
Initialized ==
    JsonObject([jsonrpc |-> "2.0", method |-> "notifications/initialized"])
CallImage ==
    JsonObject([jsonrpc |-> "2.0", id |-> "4", method |-> "tools/call",
                params |-> JsonObject(
                    [NoArguments EXCEPT
                        !.tool = TOOL,
                        !.grid_data = MakeData(NoHours, Date_20_11_2025),
                        !.return_base64 = TRUE])])
CallNoParams ==
    JsonObject([jsonrpc |-> "2.0", id |-> "5", method |-> "tools/call"])
\* "T_Date": null
CallNullDate ==
    JsonObject([jsonrpc |-> "2.0", id |-> "6", method |-> "tools/call",
                params |-> JsonObject(
                    [NoArguments EXCEPT
                        !.tool = TOOL_VERTICAL,
                        !.grid_data = MakeData(NoHours, None)])])
\* "params": [...], parameters by position
CallByPosition ==
    JsonObject([jsonrpc |-> "2.0", id |-> "7", method |-> "tools/call",
                params |-> JsonArray])
\* a JSON array of messages
Batch == JsonArray

Messages ==
    {ToolsList, Initialize, Ping, Initialized, CallImage, CallNoParams,
     CallNullDate, CallByPosition, Batch}

\* the lines of a chunk: "data: " and a JSON text, "data: " and a text that
\* is no JSON, "data: " alone, an empty line, a comment, and the texts
\* without "data: " in front
DataLine(m) == [prefix |-> "data: ", text |-> "json", value |-> m]
MalformedLine == [prefix |-> "data: ", text |-> "malformed", value |-> NoMessage]
EmptyDataLine == [prefix |-> "data: ", text |-> "", value |-> NoMessage]
BlankLine == [prefix |-> "", text |-> "", value |-> NoMessage]
CommentLine == [prefix |-> "", text |-> ": ping", value |-> NoMessage]
RawLine(m) == [prefix |-> "", text |-> "json", value |-> m]
RawMalformed == [prefix |-> "", text |-> "malformed", value |-> NoMessage]

\* the chunks of a streamed request body: one line each, a message followed
\* by an empty line, and two messages that arrive together
Chunks ==
    { <<DataLine(m)>> : m \in Messages }
        \cup { <<MalformedLine>>, <<EmptyDataLine>>, <<BlankLine>>, <<CommentLine>>,
               <<DataLine(ToolsList), BlankLine>>,
               <<DataLine(ToolsList), DataLine(Initialize)>> }

\* the bodies of a POST: a JSON text, a text that is no JSON, an SSE line
BodyChunks ==
    { <<RawLine(m)>> : m \in {ToolsList, CallImage, CallByPosition} }
        \cup { <<RawMalformed>>, <<DataLine(ToolsList)>> }

\* line.startswith(b"data: ")
startswith_data(chunk) == chunk # <<>> /\ chunk[1].prefix = "data: "

IsBlank(line) == line.prefix = "" /\ line.text = ""

\* bytes.strip() and str.strip(): without the empty lines at both ends
RECURSIVE strip(_)
strip(chunk) ==
    IF chunk = <<>> THEN <<>>
    ELSE IF IsBlank(chunk[1]) THEN strip(Tail(chunk))
    ELSE IF IsBlank(chunk[Len(chunk)]) THEN strip(SubSeq(chunk, 1, Len(chunk) - 1))
    ELSE chunk

\* line[6:]
AfterPrefix(chunk) == <<[chunk[1] EXCEPT !.prefix = ""]>> \o Tail(chunk)

\* json.loads accepts one JSON text and nothing else
loads(text) ==
    IF Len(text) = 1 /\ text[1].prefix = "" /\ text[1].text = "json"
    THEN [ok |-> TRUE, value |-> text[1].value]
    ELSE [ok |-> FALSE, value |-> NoMessage]

\* the responses of handle_mcp_message
ToolsListResult(id) ==
    [jsonrpc |-> "2.0", id |-> id, result |-> [tools |-> <<TOOL, TOOL_VERTICAL>>]]

InitializeResult(id) ==
    [jsonrpc |-> "2.0", id |-> id,
     result |-> [protocolVersion |-> "2024-11-05",
                 serverInfo |-> [name |-> "grid-image-generator",
                                 version |-> "1.0.0"]]]

MethodNotFound(id, method) ==
    [jsonrpc |-> "2.0", id |-> id,
     error |-> [code |-> -32601, message |-> "Method not found: " \o method]]

\* the three returns of the tools/call branch and the one of its except
ToolsCallResponse(id, resp) ==
    IF resp.form = "error"
    THEN [jsonrpc |-> "2.0", id |-> id,
          error |-> [code |-> resp.code, message |-> resp.message]]
    ELSE [jsonrpc |-> "2.0", id |-> id, result |-> [content |-> resp]]

\* the error responses of sse_stream
ParseError ==
    [jsonrpc |-> "2.0", id |-> NoId,
     error |-> [code |-> -32700, message |-> "Parse error"]]

StreamError(prefix, exception) ==
    [jsonrpc |-> "2.0", id |-> NoId,
     error |-> [code |-> -32603, message |-> prefix \o exception]]

\* yield "data: " + json.dumps(...) + "\n\n" and yield ": keepalive\n\n"
Event(payload) == [event |-> "data", data |-> payload]
ConnectionEvent == Event([type |-> "connection", status |-> "connected"])
Keepalive == [event |-> "comment", data |-> [text |-> "keepalive"]]

Returns(resp) == [kind |-> "return", response |-> resp]
Raises(exception) == [kind |-> "raise", exception |-> exception]

\* handle_mcp_message up to its try block: what it returns, the exception
\* that leaves it, or the tool call it goes on with
handle_mcp_message(message) ==
    IF message.json # "object" THEN Raises("AttributeError")
    ELSE LET method == get(message.members, "method", "None")
             params == get(message.members, "params", JsonObject(NoArguments))
             id == get(message.members, "id", NoId)
         IN  IF method = "tools/list" THEN Returns(ToolsListResult(id))
             ELSE IF method = "tools/call"
             THEN IF params.json # "object" THEN Raises("AttributeError")
                  ELSE [kind |-> "call", request |-> params.members, id |-> id]
             ELSE IF method = "initialize" THEN Returns(InitializeResult(id))
             ELSE Returns(MethodNotFound(id, method))

\* response = await handle_mcp_message(message) and the yield of the
\* response, or of the error that names the exception
Deliver(message, prefix) ==
    LET out == handle_mcp_message(message)
    IN  IF out.kind = "call"
        THEN /\ ToolsCall(out.request)
             /\ IF ~HasTDate(out.request.grid_data)
                THEN LET resp == ToolsCallResponse(out.id, MissingDate("sse"))
                     IN  /\ events' = Append(events, Event(resp))
                         /\ calls' = Append(calls, [message |-> message,
                                                    outcome |-> Returns(resp),
                                                    rendered |-> FALSE])
                         /\ current' = NoMessage
                ELSE /\ current' = message
                     /\ UNCHANGED <<events, calls>>
        ELSE /\ events' = Append(events,
                    Event(IF out.kind = "raise"
                          THEN StreamError(prefix, out.exception)
                          ELSE out.response))
             /\ calls' = Append(calls, [message |-> message, outcome |-> out,
                                        rendered |-> FALSE])
             /\ UNCHANGED <<current, render_vars, adapter_vars>>

\* a client connects with GET or POST
StreamInit ==
    /\ NoRender
    /\ request = NoRequest
    /\ handler = "idle"
    /\ response = NoResponse
    /\ invocations = 0
    /\ tmp_path = ""
    /\ tmp_files = {}
    /\ delivered = <<>>
    /\ served = 0
    /\ NoPrimitive
    /\ stream_pc = "start"
    /\ http_method \in {"GET", "POST"}
    /\ incoming = <<>>
    /\ closed = FALSE
    /\ received = <<>>
    /\ events = <<>>
    /\ calls = <<>>
    /\ current = NoMessage

\* the client sends a chunk of the request body; a POST has one body
ClientSend ==
    /\ ~closed
    /\ stream_pc \in {"start", "body", "stream"}
    /\ Len(incoming) + Len(received) < MaxChunks
    /\ http_method = "POST" => incoming = <<>>
    /\ \E c \in (IF http_method = "POST" THEN BodyChunks ELSE Chunks) :
          incoming' = Append(incoming, c)
    /\ UNCHANGED <<stream_pc, http_method, closed, received, events, calls,
                   current, render_vars, adapter_vars, prim_vars>>

\* the client ends the request body
ClientClose ==
    /\ ~closed
    /\ stream_pc \in {"start", "body", "stream"}
    /\ closed' = TRUE
    /\ UNCHANGED <<stream_pc, http_method, incoming, received, events, calls,
                   current, render_vars, adapter_vars, prim_vars>>

\* sse_endpoint and the first yield of sse_stream
SseConnect ==
    /\ stream_pc = "start"
    /\ events' = Append(events, ConnectionEvent)
    /\ stream_pc' = IF http_method = "POST" THEN "body" ELSE "stream"
    /\ UNCHANGED <<http_method, incoming, closed, received, calls, current,
                   render_vars, adapter_vars, prim_vars>>

\* lines 487-514: body = await request.body(), which returns the whole body
\* once it has ended; request.stream() will yield that body once more
SsePostBody ==
    /\ stream_pc = "body"
    /\ closed
    /\ stream_pc' = "stream"
    /\ LET body == IF incoming = <<>> THEN <<>> ELSE incoming[1]
       IN  /\ incoming' = <<body>>
           /\ IF body = <<>>
              THEN UNCHANGED <<events, calls, current, render_vars, adapter_vars>>
              ELSE LET message == loads(strip(body))
                   IN  IF message.ok
                       THEN Deliver(message.value, "Error processing request: ")
                       ELSE /\ events' = Append(events, Event(ParseError))
                            /\ UNCHANGED <<calls, current, render_vars,
                                           adapter_vars>>
    /\ UNCHANGED <<http_method, closed, received, prim_vars>>

\* lines 517-555: one turn of the loop over request.stream()
SseReceive ==
    /\ stream_pc = "stream"
    /\ current = NoMessage
    /\ incoming # <<>>
    /\ LET line == Head(incoming)
       IN  /\ incoming' = Tail(incoming)
           /\ received' = Append(received, line)
           /\ IF startswith_data(line)
              THEN LET message_str == strip(AfterPrefix(line))
                       message == loads(message_str)
                   IN  IF message_str = <<>>
                       THEN UNCHANGED <<events, calls, current, render_vars,
                                        adapter_vars>>
                       ELSE IF message.ok
                       THEN Deliver(message.value, "Internal error: ")
                       ELSE /\ events' = Append(events, Event(ParseError))
                            /\ UNCHANGED <<calls, current, render_vars,
                                           adapter_vars>>
              ELSE /\ events' = IF strip(line) = <<>>
                                THEN Append(events, Keepalive) ELSE events
                   /\ UNCHANGED <<calls, current, render_vars, adapter_vars>>
    /\ UNCHANGED <<stream_pc, http_method, closed, prim_vars>>

\* generate_image has returned or raised: the rest of the try block, its
\* except, and the yield of the response
SseStreamRespond ==
    /\ stream_pc = "stream"
    /\ current # NoMessage
    /\ handler = "rendering"
    /\ Return("sse")
    /\ LET resp == ToolsCallResponse(get(current.members, "id", NoId), response')
       IN  /\ events' = Append(events, Event(resp))
           /\ calls' = Append(calls, [message |-> current,
                                      outcome |-> Returns(resp),
                                      rendered |-> TRUE])
    /\ current' = NoMessage
    /\ UNCHANGED <<stream_pc, http_method, incoming, closed, received, prim_vars>>

\* request.stream() ends with an empty chunk when the body has ended, and
\* the generator returns
SseStreamEnd ==
    /\ stream_pc = "stream"
    /\ current = NoMessage
    /\ incoming = <<>>
    /\ closed
    /\ events' = Append(events, Keepalive)
    /\ stream_pc' = "ended"
    /\ UNCHANGED <<http_method, incoming, closed, received, calls, current,
                   render_vars, adapter_vars, prim_vars>>

\* the client disconnects before the body has ended: request.stream()
\* raises, and the outer except yields the error
ClientDisconnect ==
    /\ stream_pc = "stream"
    /\ current = NoMessage
    /\ incoming = <<>>
    /\ ~closed
    /\ events' = Append(events, Event(StreamError("Stream error: ", "")))
    /\ stream_pc' = "ended"
    /\ UNCHANGED <<http_method, incoming, closed, received, calls, current,
                   render_vars, adapter_vars, prim_vars>>

StreamNext ==
    \/ ClientSend
    \/ ClientClose
    \/ ClientDisconnect
    \/ SseConnect
    \/ SsePostBody
    \/ SseReceive
    \/ SseStreamRespond
    \/ SseStreamEnd
    \/ CreateCanvas
    \/ CanvasFails
    \/ DrawHeader
    \/ DrawTimeline
    \/ IsToday
    \/ DrawNowMarker
    \/ SaveImage
    \/ SaveFails

Stream == StreamInit /\ [][StreamNext]_vars

(***************************************************************************)
(* Claims about the JSON-RPC dispatcher and the SSE stream.                *)
(***************************************************************************)

HandledMethods == {"tools/list", "tools/call", "initialize"}

\* C28: handle_mcp_message answers every message, a JSON object, with one
\* response object that carries jsonrpc "2.0", the id of the message, and
\* exactly one of result and error; a method other than tools/list,
\* tools/call and initialize is answered with the error -32601 and without
\* a call of the renderer.
DispatcherAnswers ==
    \A i \in DOMAIN calls :
        LET message == calls[i].message
            outcome == calls[i].outcome
        IN  message.json = "object" =>
                /\ outcome.kind = "return"
                /\ outcome.response.jsonrpc = "2.0"
                /\ outcome.response.id = get(message.members, "id", NoId)
                /\ ("result" \in DOMAIN outcome.response)
                      # ("error" \in DOMAIN outcome.response)
                /\ get(message.members, "method", "None") \notin HandledMethods =>
                      /\ "error" \in DOMAIN outcome.response
                      /\ outcome.response.error.code = -32601
                      /\ ~calls[i].rendered

\* the lines of the chunks, in order
RECURSIVE Lines(_)
Lines(chunks) ==
    IF chunks = <<>> THEN <<>> ELSE Head(chunks) \o Lines(Tail(chunks))

IsMessageLine(line) == line.prefix = "data: " /\ line.text # ""
IsResponseEvent(e) == e.event = "data"

\* the 'data: ' messages read so far and the events that followed the
\* connection event, keepalive comments left out
MessagesRead == SelectSeq(Lines(received), IsMessageLine)
ResponseEvents == SelectSeq(Tail(events), IsResponseEvent)

\* C30: on an SSE connection the first event is the connection event; then
\* every well-formed 'data: ' message that was read has exactly one
\* response event and every malformed one exactly one -32700 parse error,
\* in the order in which the messages arrived, and the stream goes on.
EveryMessageAnswered ==
    /\ events # <<>> => events[1] = ConnectionEvent
    /\ (http_method = "GET" /\ stream_pc = "stream" /\ current = NoMessage) =>
          /\ Len(ResponseEvents) = Len(MessagesRead)
          /\ \A i \in DOMAIN MessagesRead :
                LET line == MessagesRead[i]
                    resp == ResponseEvents[i].data
                IN  IF line.text = "json"
                    THEN /\ "error" \in DOMAIN resp => resp.error.code # -32700
                         /\ line.value.json = "object" =>
                               resp.id \in {get(line.value.members, "id", NoId),
                                            NoId}
                    ELSE /\ "error" \in DOMAIN resp
                         /\ resp.error.code = -32700

----------------------------------------------------------------------------
(* The position of the now-marker as Python computes it. now.minute / 60.0, *)
(* current_time_pos / 24.0, timeline_width / 24 and the products and sums   *)
(* around them are float operations: IEEE-754 binary64, every result        *)
(* rounded to the nearest value of 53 significant bits, ties to even. A     *)
(* float is a record [m, e] of value m * 2^e (all values here are >= 0),    *)
(* with m a sequence of limbs, least significant first, so that no          *)
(* intermediate number leaves the checker's integers.                       *)

\* the significant bits of a Python float (sys.float_info.mant_dig)
Precision == 53
\* bits per limb of a significand
LimbBits == 16
Base == 2 ^ LimbBits
\* extra quotient bits computed by a division before it is rounded
DivisionShift == 12

Limbs(n) ==
    IF n = 0 THEN <<>> ELSE IF n < Base THEN <<n>> ELSE <<n % Base, n \div Base>>

Limb(b, i) == IF i \in 1..Len(b) THEN b[i] ELSE 0

\* without the leading zero limbs
Trim(b) ==
    IF \A i \in DOMAIN b : b[i] = 0 THEN <<>>
    ELSE SubSeq(b, 1, CHOOSE i \in DOMAIN b :
                          b[i] # 0 /\ \A j \in (i + 1)..Len(b) : b[j] = 0)

RECURSIVE AddFrom(_, _, _, _)
AddFrom(a, b, i, carry) ==
    IF i > Len(a) /\ i > Len(b) THEN Limbs(carry)
    ELSE LET t == Limb(a, i) + Limb(b, i) + carry
         IN  <<t % Base>> \o AddFrom(a, b, i + 1, t \div Base)

AddLimbs(a, b) == AddFrom(a, b, 1, 0)

\* b * k for a small k
RECURSIVE MulFrom(_, _, _, _)
MulFrom(b, k, i, carry) ==
    IF i > Len(b) THEN Limbs(carry)
    ELSE LET t == b[i] * k + carry
         IN  <<t % Base>> \o MulFrom(b, k, i + 1, t \div Base)

\* b divided by a small k: the remainder, then the limbs of the quotient
RECURSIVE DivFrom(_, _, _, _)
DivFrom(b, k, i, rem) ==
    IF i = 0 THEN <<rem>>
    ELSE LET cur == rem * Base + b[i]
         IN  IF cur < k THEN Append(DivFrom(b, k, i - 1, cur), 0)
             ELSE Append(DivFrom(b, k, i - 1, cur % k), cur \div k)

Width(n) == CHOOSE w \in 1..LimbBits : (2 ^ (w - 1)) <= n /\ n < (2 ^ w)

BitLength(b) ==
    IF b = <<>> THEN 0 ELSE LimbBits * (Len(b) - 1) + Width(b[Len(b)])

BitAt(b, i) == (Limb(b, (i \div LimbBits) + 1) \div (2 ^ (i % LimbBits))) % 2

ShiftRight(b, s) ==
    LET k == s \div LimbBits
        r == s % LimbBits
    IN  Trim([j \in 1..(Len(b) - k) |->
                 (Limb(b, j + k) \div (2 ^ r))
                     + ((Limb(b, j + k + 1) % (2 ^ r)) * (2 ^ (LimbBits - r)))])

ShiftLeft(b, s) ==
    LET k == s \div LimbBits
        r == s % LimbBits
    IN  Trim([j \in 1..(Len(b) + k + 1) |->
                 ((Limb(b, j - k) * (2 ^ r)) % Base)
                     + (Limb(b, j - k - 1) \div (2 ^ (LimbBits - r)))])

LessLimbs(a, b) ==
    IF Len(a) # Len(b) THEN Len(a) < Len(b)
    ELSE \E i \in 1..Len(a) :
             a[i] < b[i] /\ \A j \in (i + 1)..Len(a) : a[j] = b[j]

\* the exact result b * 2^e (plus less than one unit of b when sticky)
\* rounded to the nearest float, ties to even
Round(b, sticky, e) ==
    IF BitLength(b) <= Precision THEN [m |-> b, e |-> e]
    ELSE LET drop == BitLength(b) - Precision
             kept == ShiftRight(b, drop)
             rest == sticky \/ \E i \in 0..(drop - 2) : BitAt(b, i) = 1
             up == BitAt(b, drop - 1) = 1 /\ (rest \/ BitAt(b, drop) = 1)
         IN  [m |-> IF up THEN AddLimbs(kept, <<1>>) ELSE kept, e |-> e + drop]

\* float(n) of a small int
Float(n) == [m |-> Limbs(n), e |-> 0]

\* u * k, k a small int
FloatTimes(u, k) == Round(Trim(MulFrom(u.m, k, 1, 0)), FALSE, u.e)

\* u / k, k a small int
FloatOver(u, k) ==
    IF u.m = <<>> THEN u
    ELSE LET s == DivisionShift
                      + (IF BitLength(u.m) < Precision
                         THEN Precision - BitLength(u.m) ELSE 0)
             shifted == ShiftLeft(u.m, s)
             q == DivFrom(shifted, k, Len(shifted), 0)
         IN  Round(Trim(Tail(q)), Head(q) # 0, u.e - s)

Lower(u, w) == IF u.e < w.e THEN u.e ELSE w.e

\* the significand of u at the exponent e <= u.e
Aligned(u, e) == ShiftLeft(u.m, u.e - e)

Sum(u, w) ==
    [m |-> Trim(AddLimbs(Aligned(u, Lower(u, w)), Aligned(w, Lower(u, w)))),
     e |-> Lower(u, w)]

\* u + w
FloatPlus(u, w) == Round(Sum(u, w).m, FALSE, Sum(u, w).e)

\* u < w, u == w, u <= w
FloatLess(u, w) ==
    LessLimbs(Aligned(u, Lower(u, w)), Aligned(w, Lower(u, w)))
FloatEqual(u, w) == Aligned(u, Lower(u, w)) = Aligned(w, Lower(u, w))
FloatLeq(u, w) == FloatLess(u, w) \/ FloatEqual(u, w)

\* now.minute ranges over range(60)
MINUTES == 60

\* get_current_time_position: now.hour + now.minute / 60.0
current_time_pos(now) ==
    FloatPlus(Float(now.hour), FloatOver(Float(now.minute), MINUTES))

\* 0 <= current_time_pos < 24
InDay(position) == FloatLess(position, Float(HOURS))

\* timeline_x, timeline_width or timeline_y_start, timeline_height of the
\* rendering of a record dated 20-11-2025
MarkerAxis(v) ==
    IF v
    THEN LET l == VerticalLayout(Date_20_11_2025, CanvasSize(TRUE)[2])
             axis == VerticalAxis(l.timeline_content_y, l.timeline_card_height)
         IN  [start |-> axis.timeline_y_start, length |-> axis.timeline_height]
    ELSE LET axis == HorizontalAxis(CanvasSize(FALSE)[1])
         IN  [start |-> axis.timeline_x, length |-> axis.timeline_width]

\* current_x = timeline_x + (current_time_pos / 24.0) * timeline_width
\* current_y = timeline_y_start + (current_time_pos / 24.0) * timeline_height
current_xy(axis, position) ==
    FloatPlus(Float(axis.start),
              FloatTimes(FloatOver(position, HOURS), axis.length))

\* hour_width = timeline_width / 24, hour_height = timeline_height / 24
hour_width(axis) == FloatOver(Float(axis.length), HOURS)

\* hour_start_x = timeline_x + hour * hour_width (and hour_start_y)
hour_start(axis, hour) ==
    FloatPlus(Float(axis.start), FloatTimes(hour_width(axis), hour))

\* hour_end_x = timeline_x + (hour + 1) * hour_width (and hour_end_y)
hour_end(axis, hour) ==
    FloatPlus(Float(axis.start), FloatTimes(hour_width(axis), hour + 1))

\* the now-marker at every time of the day, in both orientations
MarkerCalls ==
    { [name |-> "now_marker", vertical |-> v, hour |-> h, minute |-> mi] :
          v \in BOOLEAN, h \in 0..(HOURS - 1), mi \in 0..(MINUTES - 1) }

MarkersInit ==
    /\ NoRender
    /\ NoAdapter
    /\ prim_call \in MarkerCalls
    /\ prim_pc = "start"
    /\ current_pos = 0
    /\ shapes = <<>>
    /\ NoStream

\* lines 278-280 and 398-400: the position, the guard and the coordinate
PlaceMarker ==
    /\ prim_pc = "start"
    /\ prim_call.name = "now_marker"
    /\ LET position == current_time_pos(prim_call)
       IN  shapes' = IF InDay(position)
                     THEN <<[current_time_pos |-> position,
                             current |-> current_xy(MarkerAxis(prim_call.vertical),
                                                    position)]>>
                     ELSE <<>>
    /\ prim_pc' = "returned"
    /\ UNCHANGED <<prim_call, current_pos, render_vars, adapter_vars, stream_vars>>

MarkersNext == PlaceMarker

Markers == MarkersInit /\ [][MarkersNext]_vars

MarkerPlaced ==
    prim_pc = "returned" /\ prim_call.name = "now_marker" /\ shapes # <<>>

\* C25: when the now-marker is drawn, for every hour 0..23 and minute 0..59
\* the fractional position hour + minute/60 lies in [0, 24), the marker
\* coordinate lies in [axis start, axis start + axis length), and it lies in
\* the slot of the current hour, slot start <= coordinate < slot end, in both
\* orientations
MarkerInsideItsSlot ==
    /\ prim_pc = "returned" /\ prim_call.name = "now_marker" => shapes # <<>>
    /\ MarkerPlaced =>
           LET axis == MarkerAxis(prim_call.vertical)
               coordinate == shapes[1].current
           IN  /\ InDay(shapes[1].current_time_pos)
               /\ FloatLeq(Float(axis.start), coordinate)
               /\ FloatLess(coordinate, Float(axis.start + axis.length))
               /\ FloatLeq(hour_start(axis, prim_call.hour), coordinate)
               /\ FloatLess(coordinate, hour_end(axis, prim_call.hour))

====
